---------------------------- MODULE Spec2Model ----------------------------
(***************************************************************************)
(* The D3 visualizer plugin (src/main.ts).                                 *)
(*                                                                         *)
(* The graphical editor (class D3GraphicalEditor): the analysis of a code  *)
(* block's source text into a chart descriptor {data, width, height,       *)
(* color} and a chart kind, the editing of the descriptor, the generation  *)
(* of code from the stored template of the kind, and the editor's          *)
(* sessions on a block.                                                    *)
(*                                                                         *)
(* The plugin (class D3VisualizerPlugin): the rendering of a d3 block, the *)
(* data loader handed to the block's code, and the display of errors.      *)
(*                                                                         *)
(* The template browser (class D3TemplateBrowserModal), the code editor    *)
(* (class D3CodeEditor) with its debounced preview, and the settings tab   *)
(* (class D3VisualizerSettingTab).                                         *)
(*                                                                         *)
(* Text is modelled as it is: a JavaScript string is a sequence of         *)
(* one-character strings, and String.includes, String.replace and every    *)
(* regular expression of the program are computed character by character.  *)
(***************************************************************************)
EXTENDS Integers, Sequences, FiniteSets, TLC

VARIABLES
    source,                    \* this.source: the text of the code block
    fixture,                   \* how that text was written: the pieces it is made of
    phase,                     \* "constructed" | "open" | "closed" (the modal)
    parsedData,                \* this.parsedData (Undefined before onOpen)
    currentVisualizationType,  \* this.currentVisualizationType
    escaped,                   \* TRUE when an exception reached the caller of onOpen
    clipboard,                 \* the text on the system clipboard (empty: none of the editor's)
    activeView,                \* workspace.getActiveViewOfType(MarkdownView) gives a view with an editor
    session,                   \* what has happened to the descriptor in the sessions on the block
    settings,                  \* this.settings of the plugin
    saved,                     \* the settings saveSettings wrote last (Undefined: none)
    vault,                     \* what each path of the vault names: no file, or a file by its content
    container,                 \* the elements of the block's visualization container
    running,                   \* the d3 block rendered: its code and how the code went (Undefined: none)
    promise,                   \* the promise the data loader returned last
    hidden,                    \* container.style.display is 'none'
    browser,                   \* the template browser modal (Undefined: none open)
    note,                      \* the texts inserted into the note at the cursor, in order
    codeEditor                 \* the code editor modal (Undefined: none open)

editorVars ==
    <<source, fixture, phase, parsedData, currentVisualizationType, escaped,
      clipboard, activeView, session>>

pluginVars == <<settings, saved, vault, container, running, promise>>

modalVars == <<browser, note, codeEditor>>

vars ==
    <<source, fixture, phase, parsedData, currentVisualizationType, escaped,
      clipboard, activeView, session, settings, saved, vault, container, running,
      promise,
      hidden, browser, note, codeEditor>>

(***************************************************************************)
(* Characters and strings                                                  *)
(***************************************************************************)

\* /\s/ over the characters the model writes
WhiteSpace == {" ", "\n", "\t"}

\* /\d/
Digits == {"0", "1", "2", "3", "4", "5", "6", "7", "8", "9"}

DigitValue(c) ==
    CASE c = "0" -> 0 [] c = "1" -> 1 [] c = "2" -> 2 [] c = "3" -> 3
      [] c = "4" -> 4 [] c = "5" -> 5 [] c = "6" -> 6 [] c = "7" -> 7
      [] c = "8" -> 8 [] c = "9" -> 9

\* the canonical form a case-insensitive regular expression compares
LowerCase ==
    [c \in {"A", "B", "C", "D", "E", "F", "G", "H", "I", "J", "K", "L", "M", "N", "O",
            "P", "Q", "R", "S", "T", "U", "V", "W", "X", "Y", "Z"} |->
        CASE c = "A" -> "a" [] c = "B" -> "b" [] c = "C" -> "c" [] c = "D" -> "d"
          [] c = "E" -> "e" [] c = "F" -> "f" [] c = "G" -> "g" [] c = "H" -> "h"
          [] c = "I" -> "i" [] c = "J" -> "j" [] c = "K" -> "k" [] c = "L" -> "l"
          [] c = "M" -> "m" [] c = "N" -> "n" [] c = "O" -> "o" [] c = "P" -> "p"
          [] c = "Q" -> "q" [] c = "R" -> "r" [] c = "S" -> "s" [] c = "T" -> "t"
          [] c = "U" -> "u" [] c = "V" -> "v" [] c = "W" -> "w" [] c = "X" -> "x"
          [] c = "Y" -> "y" [] c = "Z" -> "z"]

Lower(c) == IF c \in DOMAIN LowerCase THEN LowerCase[c] ELSE c

\* the literal k occurs in s at position i
MatchAt(s, k, i) ==
    /\ i >= 1
    /\ i + Len(k) - 1 <= Len(s)
    /\ \A j \in 1..Len(k) : s[i + j - 1] = k[j]

\* String.prototype.includes
includes(s, k) ==
    \E i \in 1..(Len(s) - Len(k) + 1) :
        s[i] = k[1] /\ \A j \in 2..Len(k) : s[i + j - 1] = k[j]

\* the positions at which the literal k occurs in s
Occurrences(s, k) ==
    {i \in 1..(Len(s) - Len(k) + 1) :
        s[i] = k[1] /\ \A j \in 2..Len(k) : s[i + j - 1] = k[j]}

\* s as a case-insensitive pattern (flag i) reads it
ToLower(s) == [i \in 1..Len(s) |-> Lower(s[i])]

\* the first position >= i whose character is not in class (Len(s)+1 if none),
\* looked for in stretches of 64 characters
RECURSIVE Skip(_, _, _)
Skip(s, i, class) ==
    IF i > Len(s) \/ s[i] \notin class THEN i
    ELSE LET stops == {j \in (i + 1)..(i + 64) : j <= Len(s) /\ s[j] \notin class}
         IN  IF stops # {} THEN CHOOSE j \in stops : \A k \in stops : j <= k
             ELSE IF i + 64 >= Len(s) THEN Len(s) + 1
             ELSE Skip(s, i + 65, class)

\* the first position >= i whose character is in class (Len(s)+1 if none)
RECURSIVE Find(_, _, _)
Find(s, i, class) ==
    IF i > Len(s) \/ s[i] \in class THEN i
    ELSE LET hits == {j \in (i + 1)..(i + 64) : j <= Len(s) /\ s[j] \in class}
         IN  IF hits # {} THEN CHOOSE j \in hits : \A k \in hits : j <= k
             ELSE IF i + 64 >= Len(s) THEN Len(s) + 1
             ELSE Find(s, i + 65, class)

\* the value of a string of decimal digits (parseInt of /\d+/)
RECURSIVE parseInt(_)
parseInt(ds) ==
    IF ds = <<>> THEN 0
    ELSE 10 * parseInt(SubSeq(ds, 1, Len(ds) - 1)) + DigitValue(ds[Len(ds)])

\* parseInt(text) of any text: white space is skipped, a sign read, then the
\* digits up to the first character that is none; NaN without a digit there
parseIntOf(text) ==
    LET i == Skip(text, 1, WhiteSpace)
        signed == i <= Len(text) /\ text[i] \in {"-", "+"}
        j == IF signed THEN i + 1 ELSE i
        k == Skip(text, j, Digits)
    IN  IF k = j THEN [nan |-> TRUE, n |-> 0]
        ELSE [nan |-> FALSE,
              n |-> IF signed /\ text[i] = "-"
                    THEN 0 - parseInt(SubSeq(text, j, k - 1))
                    ELSE parseInt(SubSeq(text, j, k - 1))]

RECURSIVE Concat(_)
Concat(ss) ==
    IF ss = <<>> THEN <<>> ELSE Head(ss) \o Concat(Tail(ss))

(***************************************************************************)
(* Chart kind detection (parseVisualizationData, second half)              *)
(***************************************************************************)

\* the string literals the detection looks for
kw ==
    [ innerRadius |-> <<"i", "n", "n", "e", "r", "R", "a", "d", "i", "u", "s">>,
      d3pie |-> <<"d", "3", ".", "p", "i", "e">>,
      pieCall |-> <<".", "p", "i", "e", "(", ")">>,
      arcCall |-> <<"a", "r", "c", "(", ")">>,
      pie |-> <<"p", "i", "e">>,
      d3histogram |-> <<"d", "3", ".", "h", "i", "s", "t", "o", "g", "r", "a", "m">>,
      histogramCall |-> <<".", "h", "i", "s", "t", "o", "g", "r", "a", "m", "(", ")">>,
      bins |-> <<"b", "i", "n", "s">>,
      heatmap |-> <<"h", "e", "a", "t", "m", "a", "p">>,
      rect |-> <<"r", "e", "c", "t">>,
      colorScale |-> <<"c", "o", "l", "o", "r", "S", "c", "a", "l", "e">>,
      timeline |-> <<"t", "i", "m", "e", "l", "i", "n", "e">>,
      timeScale |-> <<"t", "i", "m", "e", "S", "c", "a", "l", "e">>,
      events |-> <<"e", "v", "e", "n", "t", "s">>,
      radar |-> <<"r", "a", "d", "a", "r">>,
      angleScale |-> <<"a", "n", "g", "l", "e", "S", "c", "a", "l", "e">>,
      radiusScale |-> <<"r", "a", "d", "i", "u", "s", "S", "c", "a", "l", "e">>,
      box |-> <<"b", "o", "x">>,
      whisker |-> <<"w", "h", "i", "s", "k", "e", "r">>,
      quartile |-> <<"q", "u", "a", "r", "t", "i", "l", "e">>,
      bubble |-> <<"b", "u", "b", "b", "l", "e">>,
      circle |-> <<"c", "i", "r", "c", "l", "e">>,
      scale |-> <<"s", "c", "a", "l", "e">>,
      radius |-> <<"r", "a", "d", "i", "u", "s">>,
      stacked |-> <<"s", "t", "a", "c", "k", "e", "d">>,
      stackCall |-> <<"s", "t", "a", "c", "k", "(", ")">>,
      d3stack |-> <<"d", "3", ".", "s", "t", "a", "c", "k">>,
      scaleLinear |-> <<"s", "c", "a", "l", "e", "L", "i", "n", "e", "a", "r">>,
      attrX |-> <<"a", "t", "t", "r", "(", "\"", "x", "\"">>,
      scaleBand |-> <<"s", "c", "a", "l", "e", "B", "a", "n", "d">>,
      d3area |-> <<"d", "3", ".", "a", "r", "e", "a">>,
      areaCall |-> <<".", "a", "r", "e", "a", "(", ")">>,
      area |-> <<"a", "r", "e", "a">>,
      y0 |-> <<"y", "0">>,
      y1 |-> <<"y", "1">>,
      d3line |-> <<"d", "3", ".", "l", "i", "n", "e">>,
      lineCall |-> <<".", "l", "i", "n", "e", "(", ")">>,
      line |-> <<"l", "i", "n", "e">>,
      curve |-> <<"c", "u", "r", "v", "e">>,
      bandwidth |-> <<"b", "a", "n", "d", "w", "i", "d", "t", "h">>,
      bar |-> <<"b", "a", "r">>,
      cx |-> <<"c", "x">>,
      cy |-> <<"c", "y">>,
      scatter |-> <<"s", "c", "a", "t", "t", "e", "r">>,
      appendRectDq |-> <<"a", "p", "p", "e", "n", "d", "(", "\"", "r", "e", "c", "t", "\"", ")">>,
      appendRectSq |-> <<"a", "p", "p", "e", "n", "d", "(", "'", "r", "e", "c", "t", "'", ")">>,
      appendCircleDq |-> <<"a", "p", "p", "e", "n", "d", "(", "\"", "c", "i", "r", "c", "l", "e", "\"", ")">>,
      appendCircleSq |-> <<"a", "p", "p", "e", "n", "d", "(", "'", "c", "i", "r", "c", "l", "e", "'", ")">>,
      appendPathDq |-> <<"a", "p", "p", "e", "n", "d", "(", "\"", "p", "a", "t", "h", "\"", ")">>,
      appendPathSq |-> <<"a", "p", "p", "e", "n", "d", "(", "'", "p", "a", "t", "h", "'", ")">>,
      stroke |-> <<"s", "t", "r", "o", "k", "e">>,
      fill |-> <<"f", "i", "l", "l">>,
      opacity |-> <<"o", "p", "a", "c", "i", "t", "y">> ]

\* line 4190
isDonut(code) ==
    includes(code, kw.innerRadius)
        /\ (includes(code, kw.d3pie) \/ includes(code, kw.pieCall))

\* line 4192 (&& binds tighter than ||)
isPie(code) ==
    \/ includes(code, kw.d3pie)
    \/ includes(code, kw.pieCall)
    \/ (includes(code, kw.arcCall) /\ includes(code, kw.pie))

isHistogram(code) ==
    \/ includes(code, kw.d3histogram)
    \/ includes(code, kw.histogramCall)
    \/ includes(code, kw.bins)

isHeatmap(code) ==
    \/ includes(code, kw.heatmap)
    \/ (includes(code, kw.rect) /\ includes(code, kw.colorScale))

isTimeline(code) ==
    \/ includes(code, kw.timeline)
    \/ includes(code, kw.timeScale)
    \/ includes(code, kw.events)

isRadar(code) ==
    \/ includes(code, kw.radar)
    \/ includes(code, kw.angleScale)
    \/ includes(code, kw.radiusScale)

\* line 4202 (&& binds tighter than ||)
isBoxPlot(code) ==
    \/ (includes(code, kw.box) /\ includes(code, kw.whisker))
    \/ includes(code, kw.quartile)

isBubble(code) ==
    \/ includes(code, kw.bubble)
    \/ (includes(code, kw.circle) /\ includes(code, kw.scale)
            /\ includes(code, kw.radius))

isStacked(code) ==
    \/ includes(code, kw.stacked)
    \/ includes(code, kw.stackCall)
    \/ includes(code, kw.d3stack)

isHorizontalBar(code) ==
    /\ includes(code, kw.scaleLinear)
    /\ includes(code, kw.rect)
    /\ includes(code, kw.attrX)
    /\ ~includes(code, kw.scaleBand)

isArea(code) ==
    \/ includes(code, kw.d3area)
    \/ includes(code, kw.areaCall)
    \/ (includes(code, kw.area) /\ includes(code, kw.y0) /\ includes(code, kw.y1))

isLine(code) ==
    \/ includes(code, kw.d3line)
    \/ includes(code, kw.lineCall)
    \/ (includes(code, kw.line) /\ includes(code, kw.curve))

isBar(code) ==
    \/ includes(code, kw.scaleBand)
    \/ (includes(code, kw.rect) /\ includes(code, kw.bandwidth))
    \/ includes(code, kw.bar)

isScatter(code) ==
    \/ (includes(code, kw.circle) /\ includes(code, kw.cx) /\ includes(code, kw.cy))
    \/ includes(code, kw.scatter)

\* the final block with its tags cut short (no "-chart")
detectByElementShortTags(code) ==
    IF includes(code, kw.appendRectDq) \/ includes(code, kw.appendRectSq)
    THEN "bar"
    ELSE IF includes(code, kw.appendCircleDq) \/ includes(code, kw.appendCircleSq)
    THEN "scatter"
    ELSE IF includes(code, kw.appendPathDq) \/ includes(code, kw.appendPathSq)
    THEN "line"
    ELSE "bar"

\* the final block without a default of its own: what the path case ends in is
\* what every other text ends in
detectByElementPathDefault(code) ==
    IF includes(code, kw.appendRectDq) \/ includes(code, kw.appendRectSq)
    THEN "bar-chart"
    ELSE IF includes(code, kw.appendCircleDq) \/ includes(code, kw.appendCircleSq)
    THEN "scatter-plot"
    ELSE IF includes(code, kw.fill) /\ includes(code, kw.opacity)
    THEN "area-chart"
    ELSE "line-chart"

\* lines 4219-4236: the final block, by the element appended
detectByElement(code) ==
    IF includes(code, kw.appendRectDq) \/ includes(code, kw.appendRectSq)
    THEN "bar-chart"
    ELSE IF includes(code, kw.appendCircleDq) \/ includes(code, kw.appendCircleSq)
    THEN "scatter-plot"
    ELSE IF includes(code, kw.appendPathDq) \/ includes(code, kw.appendPathSq)
    THEN IF includes(code, kw.stroke) /\ ~includes(code, kw.fill)
         THEN "line-chart"
         ELSE IF includes(code, kw.fill) /\ includes(code, kw.opacity)
         THEN "area-chart"
         ELSE "line-chart"
    ELSE "bar-chart"

\* the chain with the pie test before the donut test, and the bar test before
\* the stacked test
detectGeneralFirst(code) ==
    IF isPie(code) THEN "pie-chart"
    ELSE IF isDonut(code) THEN "donut-chart"
    ELSE IF isHistogram(code) THEN "histogram"
    ELSE IF isHeatmap(code) THEN "heatmap"
    ELSE IF isTimeline(code) THEN "timeline"
    ELSE IF isRadar(code) THEN "radar"
    ELSE IF isBoxPlot(code) THEN "box-plot"
    ELSE IF isBubble(code) THEN "bubble-chart"
    ELSE IF isBar(code) THEN "bar-chart"
    ELSE IF isStacked(code) THEN "stacked-bar-chart"
    ELSE IF isHorizontalBar(code) THEN "horizontal-bar"
    ELSE IF isArea(code) THEN "area-chart"
    ELSE IF isLine(code) THEN "line-chart"
    ELSE IF isScatter(code) THEN "scatter-plot"
    ELSE detectByElement(code)

\* lines 4189-4237: the if / else-if chain, in its order
detectChartType(code) ==
    IF isDonut(code) THEN "donut-chart"
    ELSE IF isPie(code) THEN "pie-chart"
    ELSE IF isHistogram(code) THEN "histogram"
    ELSE IF isHeatmap(code) THEN "heatmap"
    ELSE IF isTimeline(code) THEN "timeline"
    ELSE IF isRadar(code) THEN "radar"
    ELSE IF isBoxPlot(code) THEN "box-plot"
    ELSE IF isBubble(code) THEN "bubble-chart"
    ELSE IF isStacked(code) THEN "stacked-bar-chart"
    ELSE IF isHorizontalBar(code) THEN "horizontal-bar"
    ELSE IF isArea(code) THEN "area-chart"
    ELSE IF isLine(code) THEN "line-chart"
    ELSE IF isBar(code) THEN "bar-chart"
    ELSE IF isScatter(code) THEN "scatter-plot"
    ELSE detectByElement(code)

\* the options of the type selector (createControlsPanel)
chartTypes ==
    { "bar-chart", "horizontal-bar", "line-chart", "area-chart", "scatter-plot",
      "bubble-chart", "pie-chart", "donut-chart", "histogram", "heatmap",
      "timeline", "radar", "box-plot", "stacked-bar-chart" }

(***************************************************************************)
(* Width, height and color (parseVisualizationData, lines 4120-4135)       *)
(***************************************************************************)

\* the literal words of the analyser's regular expressions
lit ==
    [ width |-> <<"w", "i", "d", "t", "h">>,
      height |-> <<"h", "e", "i", "g", "h", "t">>,
      fill |-> <<"f", "i", "l", "l">>,
      stroke |-> <<"s", "t", "r", "o", "k", "e">>,
      color |-> <<"c", "o", "l", "o", "r">>,
      const |-> <<"c", "o", "n", "s", "t">>,
      let |-> <<"l", "e", "t">>,
      var |-> <<"v", "a", "r">>,
      data |-> <<"d", "a", "t", "a">>,
      events |-> <<"e", "v", "e", "n", "t", "s">>,
      nodes |-> <<"n", "o", "d", "e", "s">>,
      tasks |-> <<"t", "a", "s", "k", "s">>,
      matrix |-> <<"m", "a", "t", "r", "i", "x">>,
      dotData |-> <<".", "d", "a", "t", "a", "(">>,
      label |-> <<"l", "a", "b", "e", "l">>,
      value |-> <<"v", "a", "l", "u", "e">>,
      true |-> <<"t", "r", "u", "e">>,
      false |-> <<"f", "a", "l", "s", "e">>,
      null |-> <<"n", "u", "l", "l">> ]

steelblue == <<"s", "t", "e", "e", "l", "b", "l", "u", "e">>

\* the result of String.prototype.match without flag g: the first capture group
NoMatch == [ok |-> FALSE, cap |-> <<>>]
Matched(cap) == [ok |-> TRUE, cap |-> cap]

Min(S) == CHOOSE x \in S : \A y \in S : x <= y

\* [:\s]
ColonSpace == WhiteSpace \cup {":"}

\* the grave accent (U+0060), which a TLA+ string cannot hold, by its name
Grave == "grave"

\* the quote characters of the color pattern: apostrophe, quotation mark, grave
Quotes == {"'", "\"", Grave}

\* the part [:\s]*=?[:\s]*(\d+) of the width and height patterns, from position a
dimensionTail(s, a) ==
    LET b == Skip(s, a, ColonSpace)
        c == IF b <= Len(s) /\ s[b] = "=" THEN b + 1 ELSE b
        d == Skip(s, c, ColonSpace)
        e == Skip(s, d, Digits)
    IN  IF e > d THEN Matched(SubSeq(s, d, e - 1)) ELSE NoMatch

\* code.match(/word[:\s]*=?[:\s]*(\d+)/i): the leftmost match
dimensionMatch(s, word) ==
    LET hits == {i \in Occurrences(ToLower(s), word) :
                    dimensionTail(s, i + Len(word)).ok}
    IN  IF hits = {} THEN NoMatch ELSE dimensionTail(s, Min(hits) + Len(word))

\* the part [:\s]*['"q]([^'"q]+)['"q] of the color pattern (q: the grave accent),
\* from position a
colorTail(s, a) ==
    LET b == Skip(s, a, ColonSpace)
        e == Find(s, b + 1, Quotes)
    IN  IF b <= Len(s) /\ s[b] \in Quotes /\ e <= Len(s) /\ e > b + 1
        THEN Matched(SubSeq(s, b + 1, e - 1))
        ELSE NoMatch

\* code.match(/(?:fill|stroke|color)[:\s]*['"q]([^'"q]+)['"q]/i): the leftmost
\* match, of whichever of the three words
colorMatch(s) ==
    LET low == ToLower(s)
        starts == UNION { {<<i, Len(w)>> : i \in Occurrences(low, w)} :
                            w \in {lit.fill, lit.stroke, lit.color} }
        hits == {p \in starts : colorTail(s, p[1] + p[2]).ok}
        first == CHOOSE p \in hits : \A q \in hits : p[1] <= q[1]
    IN  IF hits = {} THEN NoMatch ELSE colorTail(s, first[1] + first[2])

\* lines 4121-4124
extractWidth(code) ==
    LET widthMatch == dimensionMatch(code, lit.width)
    IN  IF widthMatch.ok THEN parseInt(widthMatch.cap) ELSE 600

\* the height read with the width's pattern (the statement copied, the word kept)
heightFromWidth(code) ==
    LET heightMatch == dimensionMatch(code, lit.width)
    IN  IF heightMatch.ok THEN parseInt(heightMatch.cap) ELSE 400

\* lines 4126-4129
extractHeight(code) ==
    LET heightMatch == dimensionMatch(code, lit.height)
    IN  IF heightMatch.ok THEN parseInt(heightMatch.cap) ELSE 400

\* lines 4131-4135
extractColor(code) ==
    LET m == colorMatch(code)
    IN  IF m.ok THEN m.cap ELSE steelblue

(***************************************************************************)
(* JavaScript values, and JSON.parse                                       *)
(*                                                                         *)
(* A value is a record of one shape: t is its type, s the characters of a  *)
(* string, m and e a number m / 10^e (e >= 0, no trailing zero counted),   *)
(* a the elements of an array or the <<key, value>> pairs of an object in  *)
(* insertion order.                                                        *)
(***************************************************************************)

JStr(s) == [t |-> "string", s |-> s, m |-> 0, e |-> 0, a |-> <<>>]
JNumRaw(m, e) == [t |-> "number", s |-> <<>>, m |-> m, e |-> e, a |-> <<>>]
JNaN == [t |-> "NaN", s |-> <<>>, m |-> 0, e |-> 0, a |-> <<>>]
JNull == [t |-> "null", s |-> <<>>, m |-> 0, e |-> 0, a |-> <<>>]
JBool(b) == [t |-> IF b THEN "true" ELSE "false", s |-> <<>>, m |-> 0, e |-> 0, a |-> <<>>]
JArr(a) == [t |-> "array", s |-> <<>>, m |-> 0, e |-> 0, a |-> a]
JObj(pairs) == [t |-> "object", s |-> <<>>, m |-> 0, e |-> 0, a |-> pairs]

\* the number m / 10^e, in lowest terms of ten
RECURSIVE JNum(_, _)
JNum(m, e) ==
    IF e > 0 /\ m % 10 = 0 THEN JNum(m \div 10, e - 1) ELSE JNumRaw(m, e)

\* obj[key] = v on an object's pairs: a present key keeps its place
setKey(pairs, key, v) ==
    IF \E i \in DOMAIN pairs : pairs[i][1] = key
    THEN [i \in DOMAIN pairs |-> IF pairs[i][1] = key THEN <<key, v>> ELSE pairs[i]]
    ELSE Append(pairs, <<key, v>>)

\* a parse step: ok, the value read and the position after it
Fail == [ok |-> FALSE, v |-> JNull, i |-> 0]
Read(v, i) == [ok |-> TRUE, v |-> v, i |-> i]

\* a JSON string starting at the quote s[i]: no raw control character; the
\* texts of the model hold no backslash, and escapes are not read
jsonString(s, i) ==
    LET e == Find(s, i + 1, {"\"", "\\", "\n", "\t"})
    IN  IF e <= Len(s) /\ s[e] = "\"" THEN Read(JStr(SubSeq(s, i + 1, e - 1)), e + 1)
        ELSE Fail

\* a JSON number starting at s[i]: -? (0 | [1-9][0-9]*) (. [0-9]+)?
\* (the texts of the model hold no exponent part)
jsonNumber(s, i) ==
    LET neg == s[i] = "-"
        a == IF neg THEN i + 1 ELSE i
        b == IF a <= Len(s) /\ s[a] = "0" THEN a + 1 ELSE Skip(s, a, Digits)
        hasFrac == b <= Len(s) /\ s[b] = "."
        c == IF hasFrac THEN Skip(s, b + 1, Digits) ELSE b
        frac == IF hasFrac THEN SubSeq(s, b + 1, c - 1) ELSE <<>>
        mag == parseInt(SubSeq(s, a, b - 1) \o frac)
    IN  IF b = a \/ (hasFrac /\ c = b + 1) THEN Fail
        ELSE Read(JNum(IF neg THEN 0 - mag ELSE mag, Len(frac)), c)

RECURSIVE jsonValue(_, _), jsonElements(_, _, _), jsonMembers(_, _, _)

jsonValue(s, i0) ==
    LET i == Skip(s, i0, WhiteSpace)
    IN  IF i > Len(s) THEN Fail
        ELSE IF s[i] = "[" THEN
            LET j == Skip(s, i + 1, WhiteSpace)
            IN  IF j <= Len(s) /\ s[j] = "]" THEN Read(JArr(<<>>), j + 1)
                ELSE jsonElements(s, i + 1, <<>>)
        ELSE IF s[i] = "{" THEN
            LET j == Skip(s, i + 1, WhiteSpace)
            IN  IF j <= Len(s) /\ s[j] = "}" THEN Read(JObj(<<>>), j + 1)
                ELSE jsonMembers(s, i + 1, <<>>)
        ELSE IF s[i] = "\"" THEN jsonString(s, i)
        ELSE IF s[i] = "-" \/ s[i] \in Digits THEN jsonNumber(s, i)
        ELSE IF MatchAt(s, lit.true, i) THEN Read(JBool(TRUE), i + 4)
        ELSE IF MatchAt(s, lit.false, i) THEN Read(JBool(FALSE), i + 5)
        ELSE IF MatchAt(s, lit.null, i) THEN Read(JNull, i + 4)
        ELSE Fail

\* the elements of an array after "[" or ",", up to "]"
jsonElements(s, i, acc) ==
    LET r == jsonValue(s, i)
        k == Skip(s, r.i, WhiteSpace)
    IN  IF ~r.ok \/ k > Len(s) THEN Fail
        ELSE IF s[k] = "," THEN jsonElements(s, k + 1, Append(acc, r.v))
        ELSE IF s[k] = "]" THEN Read(JArr(Append(acc, r.v)), k + 1)
        ELSE Fail

\* the members of an object after "{" or ",", up to "}"
jsonMembers(s, i, acc) ==
    LET q == Skip(s, i, WhiteSpace)
        key == IF q <= Len(s) /\ s[q] = "\"" THEN jsonString(s, q) ELSE Fail
        c == Skip(s, key.i, WhiteSpace)
        r == IF key.ok /\ c <= Len(s) /\ s[c] = ":" THEN jsonValue(s, c + 1) ELSE Fail
        k == Skip(s, r.i, WhiteSpace)
    IN  IF ~r.ok \/ k > Len(s) THEN Fail
        ELSE IF s[k] = "," THEN jsonMembers(s, k + 1, setKey(acc, key.v.s, r.v))
        ELSE IF s[k] = "}" THEN Read(JObj(setKey(acc, key.v.s, r.v)), k + 1)
        ELSE Fail

\* JSON.parse(text): ok = FALSE is the SyntaxError it throws
JSONparse(text) ==
    LET r == jsonValue(text, 1)
    IN  IF r.ok /\ Skip(text, r.i, WhiteSpace) > Len(text) THEN r ELSE Fail

\* parseFloat of a capture of ([0-9.]+)
parseFloat(cap) ==
    LET a == Skip(cap, 1, Digits)
        hasFrac == a <= Len(cap) /\ cap[a] = "."
        b == IF hasFrac THEN Skip(cap, a + 1, Digits) ELSE a
        frac == IF hasFrac THEN SubSeq(cap, a + 1, b - 1) ELSE <<>>
        int == SubSeq(cap, 1, a - 1)
    IN  IF int = <<>> /\ frac = <<>> THEN JNaN
        ELSE JNum(parseInt(int \o frac), Len(frac))

(***************************************************************************)
(* Data extraction (extractSimpleDataArray, parseVisualizationData)        *)
(***************************************************************************)

\* dataString.match(/\{[^}]*\}/g): the groups from position i on, left to right
RECURSIVE objectMatches(_, _)
objectMatches(s, i) ==
    LET o == Find(s, i, {"{"})
        c == Find(s, o + 1, {"}"})
    IN  IF o > Len(s) \/ c > Len(s) THEN <<>>
        ELSE <<SubSeq(s, o, c)>> \o objectMatches(s, c + 1)

\* ["']
DqSq == {"\"", "'"}

\* the part of both field patterns after the field's name, from position a:
\* ["']?\s*:\s*  ; the position after it, or 0
afterFieldName(s, a) ==
    LET b == Skip(s, IF a <= Len(s) /\ s[a] \in DqSq THEN a + 1 ELSE a, WhiteSpace)
    IN  IF b <= Len(s) /\ s[b] = ":" THEN Skip(s, b + 1, WhiteSpace) ELSE 0

\* /["']?label["']?\s*:\s*["']([^"']+)["']/ with "label" ending before position a
labelTail(s, a) ==
    LET c == afterFieldName(s, a)
        e == Find(s, c + 1, DqSq)
    IN  IF c > 0 /\ c <= Len(s) /\ s[c] \in DqSq /\ e <= Len(s) /\ e > c + 1
        THEN Matched(SubSeq(s, c + 1, e - 1))
        ELSE NoMatch

\* match.match(the label pattern): the leftmost match (a quote before "label"
\* belongs to the match and changes nothing of the group)
labelMatch(s) ==
    LET hits == {i \in Occurrences(s, lit.label) : labelTail(s, i + Len(lit.label)).ok}
    IN  IF hits = {} THEN NoMatch ELSE labelTail(s, Min(hits) + Len(lit.label))

\* /["']?value["']?\s*:\s*([0-9.]+)/ with "value" ending before position a
valueTail(s, a) ==
    LET c == afterFieldName(s, a)
        e == Skip(s, c, Digits \cup {"."})
    IN  IF c > 0 /\ e > c THEN Matched(SubSeq(s, c, e - 1)) ELSE NoMatch

valueMatch(s) ==
    LET hits == {i \in Occurrences(s, lit.value) : valueTail(s, i + Len(lit.value)).ok}
    IN  IF hits = {} THEN NoMatch ELSE valueTail(s, Min(hits) + Len(lit.value))

\* how a block of code ends: it completes with a value, or it throws
Returned(v) == [threw |-> FALSE, val |-> v]
Thrown == [threw |-> TRUE, val |-> <<>>]

\* a try whose catch throws the exception on
Rethrown(block, handler) == block

\* try { block } catch (e) { handler }
TryCatch(block, handler) == IF block.threw THEN handler ELSE block

\* JSON.parse(text) as a block: the value, or the SyntaxError thrown
parsedOrThrown(text) ==
    LET parsed == JSONparse(text)
    IN  IF parsed.ok THEN Returned(parsed.v) ELSE Thrown

\* lines 4091-4104: what one group adds to result, with obj the outcome of
\* JSON.parse(match) and l, v the matches of the label and the value pattern
\* (try: push obj; catch: push the label and the value matched, if both are)
pushed(obj, l, v) ==
    TryCatch(
        IF obj.threw THEN Thrown ELSE Returned(<<obj.val>>),
        Returned(IF l.ok /\ v.ok
                 THEN << JObj(<< <<lit.label, JStr(l.cap)>>,
                                 <<lit.value, parseFloat(v.cap)>> >>) >>
                 ELSE <<>>))

simpleRecord(match) == pushed(parsedOrThrown(match), labelMatch(match), valueMatch(match))

\* lines 4090-4106: the loop over the groups, with each the outcome of its body
\* for every group; it ends at the first one that throws
forEach(each) ==
    IF \E g \in DOMAIN each : each[g].threw THEN Thrown
    ELSE Returned(Concat([g \in DOMAIN each |-> each[g].val]))

forEachGroup(groups) == forEach([g \in DOMAIN groups |-> simpleRecord(groups[g])])

\* lines 4085-4108
extractSimpleDataArray(dataString) == forEachGroup(objectMatches(dataString, 1))

\* the part \s+(?:names)\s*=\s*(\[[\s\S]*?\]) of the assignment patterns, from
\* position a: the lazy group ends at the first "]"
assignmentTail(s, names, a) ==
    LET b == Skip(s, a, WhiteSpace)
        ns == {n \in names : MatchAt(s, n, b)}
        n == CHOOSE x \in ns : TRUE
        c == Skip(s, b + Len(n), WhiteSpace)
        d == Skip(s, c + 1, WhiteSpace)
        e == Find(s, d + 1, {"]"})
    IN  IF /\ b > a
           /\ ns # {}
           /\ c <= Len(s) /\ s[c] = "="
           /\ d <= Len(s) /\ s[d] = "["
           /\ e <= Len(s)
        THEN Matched(SubSeq(s, d, e))
        ELSE NoMatch

\* code.match(/(?:const|let|var)\s+(?:names)\s*=\s*(\[[\s\S]*?\]);?/): the
\* leftmost match
assignmentMatch(s, names) ==
    LET starts == UNION { {<<i, Len(w)>> : i \in Occurrences(s, w)} :
                            w \in {lit.const, lit.let, lit.var} }
        hits == {p \in starts : assignmentTail(s, names, p[1] + p[2]).ok}
        first == CHOOSE p \in hits : \A q \in hits : p[1] <= q[1]
    IN  IF hits = {} THEN NoMatch ELSE assignmentTail(s, names, first[1] + first[2])

\* the part \s*(\[[\s\S]*?\])\s*\) of the inline pattern, from position a: the
\* lazy group ends at the first "]" that only white space separates from a ")"
inlineTail(s, a) ==
    LET b == Skip(s, a, WhiteSpace)
        ends == {e \in (b + 1)..Len(s) :
                    /\ s[e] = "]"
                    /\ Skip(s, e + 1, WhiteSpace) <= Len(s)
                    /\ s[Skip(s, e + 1, WhiteSpace)] = ")"}
    IN  IF b <= Len(s) /\ s[b] = "[" /\ ends # {}
        THEN Matched(SubSeq(s, b, Min(ends)))
        ELSE NoMatch

\* code.match(/\.data\(\s*(\[[\s\S]*?\])\s*\)/): the leftmost match
inlineDataMatch(s) ==
    LET hits == {i \in Occurrences(s, lit.dotData) :
                    inlineTail(s, i + Len(lit.dotData)).ok}
    IN  IF hits = {} THEN NoMatch ELSE inlineTail(s, Min(hits) + Len(lit.dotData))

\* a || b on two matches
orElse(a, b) == IF a.ok THEN a ELSE b

\* lines 4138-4143: data first, the other names only when it is not found
dataMatches(code) ==
    orElse(assignmentMatch(code, {lit.data}),
           assignmentMatch(code, {lit.events, lit.nodes, lit.tasks, lit.matrix}))

\* lines 4157-4159 and 4179-4181: simpleData goes to parsedData.data when it is
\* not empty
whenNotEmpty(simpleData) ==
    IF simpleData.threw THEN Thrown
    ELSE Returned(IF Len(simpleData.val) > 0 THEN simpleData.val ELSE <<>>)

\* lines 4155-4162 and 4177-4184: the inner try around extractSimpleDataArray;
\* the value is what parsedData.data becomes
fromSimpleData(dataString) ==
    TryCatch(whenNotEmpty(extractSimpleDataArray(dataString)), Returned(<<>>))

\* lines 4150-4152: an array that is not empty goes to parsedData.data
whenFilledArray(extractedData) ==
    IF extractedData.threw THEN Thrown
    ELSE Returned(IF extractedData.val.t = "array" /\ Len(extractedData.val.a) > 0
                  THEN extractedData.val.a ELSE <<>>)

\* lines 4173-4175: an array goes to parsedData.data
whenArray(extractedData) ==
    IF extractedData.threw THEN Thrown
    ELSE Returned(IF extractedData.val.t = "array" THEN extractedData.val.a ELSE <<>>)

\* the captured literal goes to the scan of the groups without JSON.parse
decodeAssignedByScan(dataString) == fromSimpleData(dataString)

\* lines 4146-4163: parsedData.data after the captured literal is decoded
\* (JSON.parse; in its catch, extractSimpleDataArray)
decodeAssigned(dataString) ==
    TryCatch(whenFilledArray(parsedOrThrown(dataString)), fromSimpleData(dataString))

\* lines 4171-4185: the same for the literal of a .data([...]) call
decodeInline(dataString) ==
    TryCatch(whenArray(parsedOrThrown(dataString)), fromSimpleData(dataString))

\* lines 4145 and 4170: if (match) decode its group, else parsedData.data stays []
whenMatched(match, decoded) == IF match.ok THEN decoded ELSE Returned(<<>>)

\* the inline literal is never looked at
whenEmptyNeverInline(fromAssigned, fromInline) == fromAssigned

\* line 4167: the inline literal is looked at only if the data is still empty
whenEmpty(fromAssigned, fromInline) ==
    IF fromAssigned.threw THEN Thrown
    ELSE IF Len(fromAssigned.val) # 0 THEN fromAssigned
    ELSE fromInline

\* lines 4145-4164
assignedData(match) == whenMatched(match, decodeAssigned(match.cap))

\* lines 4169-4186
inlineData(match) == whenMatched(match, decodeInline(match.cap))

\* lines 4137-4187: parsedData.data before the sample data
extractData(code) ==
    whenEmpty(assignedData(dataMatches(code)), inlineData(inlineDataMatch(code)))

Record(label, value) ==
    JObj(<< <<lit.label, JStr(label)>>, <<lit.value, JNum(value, 0)>> >>)

\* lines 4242-4246
pieSampleData ==
    << Record(<<"C", "a", "t", "e", "g", "o", "r", "y", " ", "A">>, 30),
       Record(<<"C", "a", "t", "e", "g", "o", "r", "y", " ", "B">>, 45),
       Record(<<"C", "a", "t", "e", "g", "o", "r", "y", " ", "C">>, 25) >>

\* lines 4248-4253 and 4262-4267
sampleData ==
    << Record(<<"A">>, 30), Record(<<"B">>, 80), Record(<<"C">>, 45), Record(<<"D">>, 60) >>

\* the sample data without the test of the kind
barSampleData(data, type) == IF Len(data) = 0 THEN sampleData ELSE data

\* lines 4239-4255
withSampleData(data, type) ==
    IF Len(data) = 0
    THEN IF type = "pie-chart" THEN pieSampleData ELSE sampleData
    ELSE data

\* lines 4261-4271: what the outer catch returns; currentVisualizationType keeps
\* the value cur it had
safeDefaults(cur) ==
    Returned([ type |-> cur, data |-> sampleData,
               width |-> 600, height |-> 400, color |-> steelblue ])

\* lines 4112-4257, the body of the outer try, with type the kind detected and
\* data the outcome of the data extraction: it throws when a statement of it
\* throws outside the inner tries
described(code, type, data) ==
    IF data.threw THEN Thrown
    ELSE Returned([ type |-> type,
                    data |-> withSampleData(data.val, type),
                    width |-> extractWidth(code),
                    height |-> extractHeight(code),
                    color |-> extractColor(code) ])

analysis(code) == described(code, detectChartType(code), extractData(code))

\* lines 4110-4273: try { body } catch { safe defaults }
parseVisualizationData(code, cur) == TryCatch(analysis(code), safeDefaults(cur))
\* pieces of chart code: the words the detection looks for, alone and inside
\* longer words, and one (the last) that holds none of them
TypeWords ==
    << <<"i", "n", "n", "e", "r", "R", "a", "d", "i", "u", "s">>,
       <<"d", "3", ".", "p", "i", "e", "(", ")">>,
       <<"a", "r", "c", "(", ")">>,
       <<"p", "i", "e">>,
       <<"b", "i", "n", "s">>,
       <<"c", "o", "l", "o", "r", "S", "c", "a", "l", "e">>,
       <<"a", "p", "p", "e", "n", "d", "(", "\"", "r", "e", "c", "t", "\"", ")">>,
       <<"t", "i", "m", "e", "l", "i", "n", "e">>,
       <<"r", "a", "d", "i", "u", "s", "S", "c", "a", "l", "e">>,
       <<"b", "o", "x">>,
       <<"w", "h", "i", "s", "k", "e", "r">>,
       <<"a", "p", "p", "e", "n", "d", "(", "'", "c", "i", "r", "c", "l", "e", "'", ")">>,
       <<"b", "u", "b", "b", "l", "e">>,
       <<"s", "t", "a", "c", "k", "e", "d">>,
       <<"d", "3", ".", "s", "c", "a", "l", "e", "L", "i", "n", "e", "a", "r", "(", ")">>,
       <<".", "a", "p", "p", "e", "n", "d", "(", "\"", "r", "e", "c", "t", "\"", ")", ".", "a", "t", "t", "r", "(", "\"", "x", "\"", ",", " ", "0", ")">>,
       <<"d", "3", ".", "s", "c", "a", "l", "e", "B", "a", "n", "d", "(", ")">>,
       <<"a", "r", "e", "a">>,
       <<".", "y", "0", "(", "h", ")", ".", "y", "1", "(", "y", ")">>,
       <<"d", "3", ".", "l", "i", "n", "e", "(", ")">>,
       <<"l", "i", "n", "e">>,
       <<"c", "u", "r", "v", "e">>,
       <<"b", "a", "n", "d", "w", "i", "d", "t", "h">>,
       <<"b", "a", "r">>,
       <<".", "a", "t", "t", "r", "(", "\"", "c", "x", "\"", ",", " ", "x", ")", ".", "a", "t", "t", "r", "(", "\"", "c", "y", "\"", ",", " ", "y", ")">>,
       <<"a", "p", "p", "e", "n", "d", "(", "\"", "p", "a", "t", "h", "\"", ")">>,
       <<"s", "t", "r", "o", "k", "e">>,
       <<"f", "i", "l", "l">>,
       <<"o", "p", "a", "c", "i", "t", "y">>,
       <<"s", "v", "g">> >>

\* pieces of style code, each with the parameter it is about (w: width, h: height,
\* c: color, x: none), the integer n it gives a dimension and the string arg it
\* gives the color (empty: the color is no string)
StyleWords ==
    << [txt |-> <<"w", "i", "d", "t", "h", ":", " ", "8", "0", "0">>,
        about |-> "w", n |-> 800, arg |-> <<>>],
       [txt |-> <<"h", "e", "i", "g", "h", "t", ":", " ", "3", "0", "0">>,
        about |-> "h", n |-> 300, arg |-> <<>>],
       [txt |-> <<"f", "i", "l", "l", ":", " ", "'", "r", "e", "d", "'">>,
        about |-> "c", n |-> 0, arg |-> <<"r", "e", "d">>],
       [txt |-> <<"w", "i", "d", "t", "h", " ", "=", " ", "3", "5", "0">>,
        about |-> "w", n |-> 350, arg |-> <<>>],
       [txt |-> <<"H", "E", "I", "G", "H", "T", "=", "2", "8", "0">>,
        about |-> "h", n |-> 280, arg |-> <<>>],
       [txt |-> <<".", "s", "t", "y", "l", "e", "(", "\"", "f", "i", "l", "l", "\"", ",", " ", "\"", "r", "e", "d", "\"", ")">>,
        about |-> "c", n |-> 0, arg |-> <<"r", "e", "d">>],
       [txt |-> <<".", "a", "t", "t", "r", "(", "\"", "f", "i", "l", "l", "\"", ",", " ", "c", ")">>,
        about |-> "c", n |-> 0, arg |-> <<>>],
       [txt |-> <<".", "a", "t", "t", "r", "(", "\"", "i", "d", "\"", ",", " ", "\"", "c", "h", "a", "r", "t", "\"", ")">>,
        about |-> "x", n |-> 0, arg |-> <<>>],
       [txt |-> <<".", "a", "t", "t", "r", "(", "\"", "w", "i", "d", "t", "h", "\"", ",", " ", "6", "4", "0", ")">>,
        about |-> "x", n |-> 0, arg |-> <<>>],
       [txt |-> <<"c", "o", "l", "o", "r", ":", " ", "\"", "#", "f", "f", "0", "0", "0", "0", "\"">>,
        about |-> "c", n |-> 0, arg |-> <<"#", "f", "f", "0", "0", "0", "0">>] >>

\* records as they are written in chart code: the text, the name of the first
\* field, the label and the value m / 10^e it denotes, and whether the value is
\* written as a literal (a computed value denotes what its expression evaluates to;
\* x is not known to the text); the eleventh is no record but malformed text, the
\* twelfth a record of strict JSON whose value is an object
RecWords ==
    << [txt |-> <<"{", "l", "a", "b", "e", "l", ":", " ", "\"", "A", "\"", ",", " ", "v", "a", "l", "u", "e", ":", " ", "3", "0", "}">>,
        key |-> "label", label |-> <<"A">>, m |-> 30, e |-> 0, literal |-> TRUE],
       [txt |-> <<"{", "l", "a", "b", "e", "l", ":", " ", "'", "B", "'", ",", " ", "v", "a", "l", "u", "e", ":", " ", "8", "0", "}">>,
        key |-> "label", label |-> <<"B">>, m |-> 80, e |-> 0, literal |-> TRUE],
       [txt |-> <<"{", "\"", "l", "a", "b", "e", "l", "\"", ":", "\"", "C", "\"", ",", "\"", "v", "a", "l", "u", "e", "\"", ":", "4", "5", "}">>,
        key |-> "label", label |-> <<"C">>, m |-> 45, e |-> 0, literal |-> TRUE],
       [txt |-> <<"{", "l", "a", "b", "e", "l", ":", " ", "\"", "D", "\"", ",", " ", "v", "a", "l", "u", "e", ":", " ", "-", "5", "}">>,
        key |-> "label", label |-> <<"D">>, m |-> -5, e |-> 0, literal |-> TRUE],
       [txt |-> <<"{", "\"", "l", "a", "b", "e", "l", "\"", ":", "\"", "E", "\"", ",", "\"", "v", "a", "l", "u", "e", "\"", ":", "-", "5", "}">>,
        key |-> "label", label |-> <<"E">>, m |-> -5, e |-> 0, literal |-> TRUE],
       [txt |-> <<"{", "l", "a", "b", "e", "l", ":", " ", "\"", "F", "\"", ",", " ", "v", "a", "l", "u", "e", ":", " ", "2", ".", "5", "}">>,
        key |-> "label", label |-> <<"F">>, m |-> 25, e |-> 1, literal |-> TRUE],
       [txt |-> <<"{", "l", "a", "b", "e", "l", ":", " ", "\"", "O", "'", "N", "e", "i", "l", "\"", ",", " ", "v", "a", "l", "u", "e", ":", " ", "7", "}">>,
        key |-> "label", label |-> <<"O", "'", "N", "e", "i", "l">>, m |-> 7, e |-> 0, literal |-> TRUE],
       [txt |-> <<"{", "l", "a", "b", "e", "l", ":", " ", "\"", "G", "\"", ",", " ", "v", "a", "l", "u", "e", ":", " ", "1", "0", " ", "*", " ", "2", "}">>,
        key |-> "label", label |-> <<"G">>, m |-> 20, e |-> 0, literal |-> FALSE],
       [txt |-> <<"{", "l", "a", "b", "e", "l", ":", " ", "\"", "H", "\"", ",", " ", "v", "a", "l", "u", "e", ":", " ", "x", " ", "*", " ", "2", "}">>,
        key |-> "label", label |-> <<"H">>, m |-> 0, e |-> 0, literal |-> FALSE],
       [txt |-> <<"{", "n", "a", "m", "e", ":", " ", "'", "I", "'", ",", " ", "v", "a", "l", "u", "e", ":", " ", "6", "0", "}">>,
        key |-> "name", label |-> <<"I">>, m |-> 60, e |-> 0, literal |-> TRUE],
       [txt |-> <<"{", "]", "\"", "'", "[", "{", ",", ":">>,
        key |-> "none", label |-> <<>>, m |-> 0, e |-> 0, literal |-> FALSE],
       [txt |-> <<"{", "\"", "l", "a", "b", "e", "l", "\"", ":", "\"", "N", "\"", ",", "\"", "v", "a", "l", "u", "e", "\"", ":", "{", "\"", "v", "\"", ":", "1", "}", "}">>,
        key |-> "nested", label |-> <<"N">>, m |-> 0, e |-> 0, literal |-> TRUE] >>

\* the statements that hold an array literal: the text before the records and
\* after them (the second and the fifth go on with a data join on an inline
\* literal, the sixth does not close the literal, the seventh is no statement: the
\* records alone, the eighth assigns to events before it assigns to data)
Forms ==
    << [pre |-> <<"c", "o", "n", "s", "t", " ", "d", "a", "t", "a", " ", "=", " ", "[">>,
        post |-> <<"]", ";">>],
       [pre |-> <<"c", "o", "n", "s", "t", " ", "d", "a", "t", "a", " ", "=", " ", "[", "\n", " ", " ">>,
        post |-> <<"\n", "]", ";", "\n", "s", "v", "g", ".", "s", "e", "l", "e", "c", "t", "A", "l", "l", "(", "\"", "r", "e", "c", "t", "\"", ")", ".", "d", "a", "t", "a", "(", "[", "{", "\"", "l", "a", "b", "e", "l", "\"", ":", "\"", "Z", "\"", ",", "\"", "v", "a", "l", "u", "e", "\"", ":", "1", "}", "]", ")", ".", "e", "n", "t", "e", "r", "(", ")", ";">>],
       [pre |-> <<"l", "e", "t", " ", "e", "v", "e", "n", "t", "s", " ", "=", " ", "[">>,
        post |-> <<"]", ";">>],
       [pre |-> <<"s", "v", "g", ".", "s", "e", "l", "e", "c", "t", "A", "l", "l", "(", "\"", "g", "\"", ")", ".", "d", "a", "t", "a", "(", "[">>,
        post |-> <<"]", ")", ".", "e", "n", "t", "e", "r", "(", ")", ";">>],
       [pre |-> <<"c", "o", "n", "s", "t", " ", "r", "o", "w", "s", " ", "=", " ", "[">>,
        post |-> <<"]", ";", "\n", "s", "v", "g", ".", "s", "e", "l", "e", "c", "t", "A", "l", "l", "(", "\"", "r", "e", "c", "t", "\"", ")", ".", "d", "a", "t", "a", "(", "[", "{", "\"", "l", "a", "b", "e", "l", "\"", ":", "\"", "Z", "\"", ",", "\"", "v", "a", "l", "u", "e", "\"", ":", "1", "}", "]", ")", ".", "e", "n", "t", "e", "r", "(", ")", ";">>],
       [pre |-> <<"c", "o", "n", "s", "t", " ", "d", "a", "t", "a", " ", "=", " ", "[">>,
        post |-> <<>>],
       [pre |-> <<>>,
        post |-> <<>>],
       [pre |-> <<"l", "e", "t", " ", "e", "v", "e", "n", "t", "s", " ", "=", " ", "[", "{", "\"", "l", "a", "b", "e", "l", "\"", ":", "\"", "Z", "\"", ",", "\"", "v", "a", "l", "u", "e", "\"", ":", "1", "}", "]", ";", "\n", "c", "o", "n", "s", "t", " ", "d", "a", "t", "a", " ", "=", " ", "[">>,
        post |-> <<"]", ";">>] >>

\* records of a data sheet, in strict JSON: the text, the label and the value
\* m / 10^e
SheetRecords ==
    << [txt |-> <<"{", "\"", "l", "a", "b", "e", "l", "\"", ":", "\"", "A", "\"", ",", "\"", "v", "a", "l", "u", "e", "\"", ":", "3", "0", "}">>,
        label |-> <<"A">>, m |-> 30, e |-> 0],
       [txt |-> <<"{", "\"", "l", "a", "b", "e", "l", "\"", ":", "\"", "$", "&", "\"", ",", "\"", "v", "a", "l", "u", "e", "\"", ":", "2", ".", "5", "}">>,
        label |-> <<"$", "&">>, m |-> 25, e |-> 1],
       [txt |-> <<"{", "\"", "l", "a", "b", "e", "l", "\"", ":", "\"", "h", "e", "i", "g", "h", "t", " ", "=", " ", "7", ",", " ", "w", "i", "d", "t", "h", " ", "=", " ", "0", "\"", ",", "\"", "v", "a", "l", "u", "e", "\"", ":", "1", "}">>,
        label |-> <<"h", "e", "i", "g", "h", "t", " ", "=", " ", "7", ",", " ", "w", "i", "d", "t", "h", " ", "=", " ", "0">>, m |-> 1, e |-> 0] >>

\* the style line of a data sheet
SheetStyles ==
    << [txt |-> <<>>],
       [txt |-> <<"w", "i", "d", "t", "h", ":", " ", "8", "0", "0", ",", " ", "h", "e", "i", "g", "h", "t", ":", " ", "3", "0", "0", ",", " ", "f", "i", "l", "l", ":", " ", "'", "r", "e", "d", "'">>],
       [txt |-> <<"w", "i", "d", "t", "h", ":", " ", "0", ",", " ", "h", "e", "i", "g", "h", "t", ":", " ", "0", ",", " ", "f", "i", "l", "l", ":", " ", "'", "#", "f", "f", "0", "0", "0", "0", "'">>],
       [txt |-> <<"w", "i", "d", "t", "h", " ", "=", " ", "2", "0", "0", ",", " ", "h", "e", "i", "g", "h", "t", " ", "=", " ", "1", "0", "0", ",", " ", "c", "o", "l", "o", "r", ":", " ", "\"", "#", "4", "6", "8", "2", "b", "4", "\"">>] >>
(***************************************************************************)
(* The stored templates (getTemplates, lines 607-3166)                     *)
(*                                                                         *)
(* Of each template of a kind the type selector offers, the model keeps    *)
(* the first statement (the sample data), every line that holds the word   *)
(* width or height, utils.colors or steelblue, for each word of the        *)
(* detection chain that the template holds the first line that holds it,   *)
(* and the lines of the first match of the color pattern, in their order,  *)
(* each followed by its line break.  The lines left out hold no text that  *)
(* a pattern of the generators or of the analyser's data extraction can    *)
(* match, and no word of the detection chain that the lines kept lack.     *)
(***************************************************************************)

getTemplates ==
    \* 'bar-chart', lines 622-666; kept: 622-627, 630-631, 635-636, 641, 643, 646, 648, 650, 652, 654, 656-662
    "bar-chart" :>
        <<"c", "o", "n", "s", "t", " ", "d", "a", "t", "a", " ", "=", " ", "[", "\n", " ", " ", "{", "n", "a", "m", "e", ":", " ", "'", "A", "'", ",", " ", "v", "a", "l", "u", "e", ":", " ", "3", "0", "}", ",", "\n", " ", " ", "{", "n", "a", "m", "e", ":", " ", "'", "B", "'", ",", " ", "v", "a", "l", "u", "e", ":", " ", "8", "0", "}", ",", "\n", " ", " ", "{", "n", "a", "m", "e", ":", " ", "'", "C", "'", ",", " ", "v", "a", "l", "u", "e", ":", " ", "4", "5", "}", ",", "\n", " ", " ", "{", "n", "a", "m", "e", ":", " ", "'", "D", "'", ",", " ", "v", "a", "l", "u", "e", ":", " ", "6", "0", "}", "\n", "]", ";", "\n", "c", "o", "n", "s", "t", " ", "i", "n", "n", "e", "r", "W", "i", "d", "t", "h", " ", "=", " ", "u", "t", "i", "l", "s", ".", "i", "n", "n", "e", "r", "W", "i", "d", "t", "h", "(", "w", "i", "d", "t", "h", ",", " ", "m", "a", "r", "g", "i", "n", ")", ";", "\n", "c", "o", "n", "s", "t", " ", "i", "n", "n", "e", "r", "H", "e", "i", "g", "h", "t", " ", "=", " ", "u", "t", "i", "l", "s", ".", "i", "n", "n", "e", "r", "H", "e", "i", "g", "h", "t", "(", "h", "e", "i", "g", "h", "t", ",", " ", "m", "a", "r", "g", "i", "n", ")", ";", "\n", " ", " ", ".", "a", "t", "t", "r", "(", "\"", "w", "i", "d", "t", "h", "\"", ",", " ", "w", "i", "d", "t", "h", ")", "\n", " ", " ", ".", "a", "t", "t", "r", "(", "\"", "h", "e", "i", "g", "h", "t", "\"", ",", " ", "h", "e", "i", "g", "h", "t", ")", ";", "\n", "c", "o", "n", "s", "t", " ", "x", " ", "=", " ", "d", "3", ".", "s", "c", "a", "l", "e", "B", "a", "n", "d", "(", ")", "\n", " ", " ", ".", "r", "a", "n", "g", "e", "(", "[", "0", ",", " ", "i", "n", "n", "e", "r", "W", "i", "d", "t", "h", "]", ")", "\n", "c", "o", "n", "s", "t", " ", "y", " ", "=", " ", "d", "3", ".", "s", "c", "a", "l", "e", "L", "i", "n", "e", "a", "r", "(", ")", "\n", " ", " ", ".", "r", "a", "n", "g", "e", "(", "[", "i", "n", "n", "e", "r", "H", "e", "i", "g", "h", "t", ",", " ", "0", "]", ")", ";", "\n", "g", ".", "s", "e", "l", "e", "c", "t", "A", "l", "l", "(", "\"", ".", "b", "a", "r", "\"", ")", "\n", " ", " ", ".", "e", "n", "t", "e", "r", "(", ")", ".", "a", "p", "p", "e", "n", "d", "(", "\"", "r", "e", "c", "t", "\"", ")", "\n", " ", " ", ".", "a", "t", "t", "r", "(", "\"", "x", "\"", ",", " ", "d", " ", "=", ">", " ", "x", "(", "d", ".", "n", "a", "m", "e", ")", ")", "\n", " ", " ", ".", "a", "t", "t", "r", "(", "\"", "w", "i", "d", "t", "h", "\"", ",", " ", "x", ".", "b", "a", "n", "d", "w", "i", "d", "t", "h", "(", ")", ")", "\n", " ", " ", ".", "a", "t", "t", "r", "(", "\"", "h", "e", "i", "g", "h", "t", "\"", ",", " ", "d", " ", "=", ">", " ", "i", "n", "n", "e", "r", "H", "e", "i", "g", "h", "t", " ", "-", " ", "y", "(", "d", ".", "v", "a", "l", "u", "e", ")", ")", "\n", " ", " ", ".", "s", "t", "y", "l", "e", "(", "\"", "f", "i", "l", "l", "\"", ",", " ", "u", "t", "i", "l", "s", ".", "c", "o", "l", "o", "r", "s", "[", "0", "]", ")", ";", "\n", "\n", "/", "/", " ", "A", "d", "d", " ", "a", "x", "e", "s", "\n", "g", ".", "a", "p", "p", "e", "n", "d", "(", "\"", "g", "\"", ")", "\n", " ", " ", ".", "a", "t", "t", "r", "(", "\"", "t", "r", "a", "n", "s", "f", "o", "r", "m", "\"", ",", " ", Grave, "t", "r", "a", "n", "s", "l", "a", "t", "e", "(", "0", ",", "$", "{", "i", "n", "n", "e", "r", "H", "e", "i", "g", "h", "t", "}", ")", Grave, ")", "\n">>
    @@
    \* 'horizontal-bar', lines 668-712; kept: 668-673, 676-677, 681-682, 687, 689, 691, 693, 696, 698, 700, 702-708
    "horizontal-bar" :>
        <<"c", "o", "n", "s", "t", " ", "d", "a", "t", "a", " ", "=", " ", "[", "\n", " ", " ", "{", "n", "a", "m", "e", ":", " ", "'", "P", "r", "o", "d", "u", "c", "t", " ", "A", "'", ",", " ", "v", "a", "l", "u", "e", ":", " ", "3", "0", "}", ",", "\n", " ", " ", "{", "n", "a", "m", "e", ":", " ", "'", "P", "r", "o", "d", "u", "c", "t", " ", "B", "'", ",", " ", "v", "a", "l", "u", "e", ":", " ", "8", "0", "}", ",", "\n", " ", " ", "{", "n", "a", "m", "e", ":", " ", "'", "P", "r", "o", "d", "u", "c", "t", " ", "C", "'", ",", " ", "v", "a", "l", "u", "e", ":", " ", "4", "5", "}", ",", "\n", " ", " ", "{", "n", "a", "m", "e", ":", " ", "'", "P", "r", "o", "d", "u", "c", "t", " ", "D", "'", ",", " ", "v", "a", "l", "u", "e", ":", " ", "6", "0", "}", "\n", "]", ";", "\n", "c", "o", "n", "s", "t", " ", "i", "n", "n", "e", "r", "W", "i", "d", "t", "h", " ", "=", " ", "u", "t", "i", "l", "s", ".", "i", "n", "n", "e", "r", "W", "i", "d", "t", "h", "(", "w", "i", "d", "t", "h", ",", " ", "m", "a", "r", "g", "i", "n", ")", ";", "\n", "c", "o", "n", "s", "t", " ", "i", "n", "n", "e", "r", "H", "e", "i", "g", "h", "t", " ", "=", " ", "u", "t", "i", "l", "s", ".", "i", "n", "n", "e", "r", "H", "e", "i", "g", "h", "t", "(", "h", "e", "i", "g", "h", "t", ",", " ", "m", "a", "r", "g", "i", "n", ")", ";", "\n", " ", " ", ".", "a", "t", "t", "r", "(", "\"", "w", "i", "d", "t", "h", "\"", ",", " ", "w", "i", "d", "t", "h", ")", "\n", " ", " ", ".", "a", "t", "t", "r", "(", "\"", "h", "e", "i", "g", "h", "t", "\"", ",", " ", "h", "e", "i", "g", "h", "t", ")", ";", "\n", "c", "o", "n", "s", "t", " ", "x", " ", "=", " ", "d", "3", ".", "s", "c", "a", "l", "e", "L", "i", "n", "e", "a", "r", "(", ")", "\n", " ", " ", ".", "r", "a", "n", "g", "e", "(", "[", "0", ",", " ", "i", "n", "n", "e", "r", "W", "i", "d", "t", "h", "]", ")", ";", "\n", "c", "o", "n", "s", "t", " ", "y", " ", "=", " ", "d", "3", ".", "s", "c", "a", "l", "e", "B", "a", "n", "d", "(", ")", "\n", " ", " ", ".", "r", "a", "n", "g", "e", "(", "[", "0", ",", " ", "i", "n", "n", "e", "r", "H", "e", "i", "g", "h", "t", "]", ")", "\n", "g", ".", "s", "e", "l", "e", "c", "t", "A", "l", "l", "(", "\"", ".", "b", "a", "r", "\"", ")", "\n", " ", " ", ".", "e", "n", "t", "e", "r", "(", ")", ".", "a", "p", "p", "e", "n", "d", "(", "\"", "r", "e", "c", "t", "\"", ")", "\n", " ", " ", ".", "a", "t", "t", "r", "(", "\"", "x", "\"", ",", " ", "0", ")", "\n", " ", " ", ".", "a", "t", "t", "r", "(", "\"", "w", "i", "d", "t", "h", "\"", ",", " ", "d", " ", "=", ">", " ", "x", "(", "d", ".", "v", "a", "l", "u", "e", ")", ")", "\n", " ", " ", ".", "a", "t", "t", "r", "(", "\"", "h", "e", "i", "g", "h", "t", "\"", ",", " ", "y", ".", "b", "a", "n", "d", "w", "i", "d", "t", "h", "(", ")", ")", "\n", " ", " ", ".", "s", "t", "y", "l", "e", "(", "\"", "f", "i", "l", "l", "\"", ",", " ", "u", "t", "i", "l", "s", ".", "c", "o", "l", "o", "r", "s", "[", "1", "]", ")", ";", "\n", "\n", "/", "/", " ", "A", "d", "d", " ", "a", "x", "e", "s", "\n", "g", ".", "a", "p", "p", "e", "n", "d", "(", "\"", "g", "\"", ")", "\n", " ", " ", ".", "a", "t", "t", "r", "(", "\"", "t", "r", "a", "n", "s", "f", "o", "r", "m", "\"", ",", " ", Grave, "t", "r", "a", "n", "s", "l", "a", "t", "e", "(", "0", ",", "$", "{", "i", "n", "n", "e", "r", "H", "e", "i", "g", "h", "t", "}", ")", Grave, ")", "\n">>
    @@
    \* 'line-chart', lines 757-810; kept: 757-760, 763-764, 768-769, 774, 776, 780, 782, 785, 787, 789-791, 797, 799-800, 802, 806
    "line-chart" :>
        <<"c", "o", "n", "s", "t", " ", "d", "a", "t", "a", " ", "=", " ", "d", "3", ".", "r", "a", "n", "g", "e", "(", "2", "0", ")", ".", "m", "a", "p", "(", "i", " ", "=", ">", " ", "(", "{", "\n", " ", " ", "x", ":", " ", "i", ",", "\n", " ", " ", "y", ":", " ", "M", "a", "t", "h", ".", "s", "i", "n", "(", "i", " ", "*", " ", "0", ".", "5", ")", " ", "*", " ", "5", "0", " ", "+", " ", "5", "0", " ", "+", " ", "M", "a", "t", "h", ".", "r", "a", "n", "d", "o", "m", "(", ")", " ", "*", " ", "2", "0", "\n", "}", ")", ")", ";", "\n", "c", "o", "n", "s", "t", " ", "i", "n", "n", "e", "r", "W", "i", "d", "t", "h", " ", "=", " ", "u", "t", "i", "l", "s", ".", "i", "n", "n", "e", "r", "W", "i", "d", "t", "h", "(", "w", "i", "d", "t", "h", ",", " ", "m", "a", "r", "g", "i", "n", ")", ";", "\n", "c", "o", "n", "s", "t", " ", "i", "n", "n", "e", "r", "H", "e", "i", "g", "h", "t", " ", "=", " ", "u", "t", "i", "l", "s", ".", "i", "n", "n", "e", "r", "H", "e", "i", "g", "h", "t", "(", "h", "e", "i", "g", "h", "t", ",", " ", "m", "a", "r", "g", "i", "n", ")", ";", "\n", " ", " ", ".", "a", "t", "t", "r", "(", "\"", "w", "i", "d", "t", "h", "\"", ",", " ", "w", "i", "d", "t", "h", ")", "\n", " ", " ", ".", "a", "t", "t", "r", "(", "\"", "h", "e", "i", "g", "h", "t", "\"", ",", " ", "h", "e", "i", "g", "h", "t", ")", ";", "\n", "c", "o", "n", "s", "t", " ", "x", " ", "=", " ", "d", "3", ".", "s", "c", "a", "l", "e", "L", "i", "n", "e", "a", "r", "(", ")", "\n", " ", " ", ".", "r", "a", "n", "g", "e", "(", "[", "0", ",", " ", "i", "n", "n", "e", "r", "W", "i", "d", "t", "h", "]", ")", ";", "\n", " ", " ", ".", "r", "a", "n", "g", "e", "(", "[", "i", "n", "n", "e", "r", "H", "e", "i", "g", "h", "t", ",", " ", "0", "]", ")", ";", "\n", "c", "o", "n", "s", "t", " ", "l", "i", "n", "e", " ", "=", " ", "d", "3", ".", "l", "i", "n", "e", "(", ")", "\n", " ", " ", ".", "c", "u", "r", "v", "e", "(", "d", "3", ".", "c", "u", "r", "v", "e", "M", "o", "n", "o", "t", "o", "n", "e", "X", ")", ";", "\n", "g", ".", "a", "p", "p", "e", "n", "d", "(", "\"", "p", "a", "t", "h", "\"", ")", "\n", " ", " ", ".", "a", "t", "t", "r", "(", "\"", "f", "i", "l", "l", "\"", ",", " ", "\"", "n", "o", "n", "e", "\"", ")", "\n", " ", " ", ".", "a", "t", "t", "r", "(", "\"", "s", "t", "r", "o", "k", "e", "\"", ",", " ", "u", "t", "i", "l", "s", ".", "c", "o", "l", "o", "r", "s", "[", "2", "]", ")", "\n", " ", " ", ".", "a", "t", "t", "r", "(", "\"", "s", "t", "r", "o", "k", "e", "-", "w", "i", "d", "t", "h", "\"", ",", " ", "2", ")", "\n", " ", " ", ".", "e", "n", "t", "e", "r", "(", ")", ".", "a", "p", "p", "e", "n", "d", "(", "\"", "c", "i", "r", "c", "l", "e", "\"", ")", "\n", " ", " ", ".", "a", "t", "t", "r", "(", "\"", "c", "x", "\"", ",", " ", "d", " ", "=", ">", " ", "x", "(", "d", ".", "x", ")", ")", "\n", " ", " ", ".", "a", "t", "t", "r", "(", "\"", "c", "y", "\"", ",", " ", "d", " ", "=", ">", " ", "y", "(", "d", ".", "y", ")", ")", "\n", " ", " ", ".", "s", "t", "y", "l", "e", "(", "\"", "f", "i", "l", "l", "\"", ",", " ", "u", "t", "i", "l", "s", ".", "c", "o", "l", "o", "r", "s", "[", "2", "]", ")", ";", "\n", " ", " ", ".", "a", "t", "t", "r", "(", "\"", "t", "r", "a", "n", "s", "f", "o", "r", "m", "\"", ",", " ", Grave, "t", "r", "a", "n", "s", "l", "a", "t", "e", "(", "0", ",", "$", "{", "i", "n", "n", "e", "r", "H", "e", "i", "g", "h", "t", "}", ")", Grave, ")", "\n">>
    @@
    \* 'area-chart', lines 812-867; kept: 812-815, 818-819, 823-824, 829, 831, 835, 837, 839-841, 843, 845-846, 849, 857-858, 863
    "area-chart" :>
        <<"c", "o", "n", "s", "t", " ", "d", "a", "t", "a", " ", "=", " ", "d", "3", ".", "r", "a", "n", "g", "e", "(", "3", "0", ")", ".", "m", "a", "p", "(", "i", " ", "=", ">", " ", "(", "{", "\n", " ", " ", "x", ":", " ", "i", ",", "\n", " ", " ", "y", ":", " ", "M", "a", "t", "h", ".", "s", "i", "n", "(", "i", " ", "*", " ", "0", ".", "3", ")", " ", "*", " ", "3", "0", " ", "+", " ", "5", "0", " ", "+", " ", "M", "a", "t", "h", ".", "r", "a", "n", "d", "o", "m", "(", ")", " ", "*", " ", "1", "5", "\n", "}", ")", ")", ";", "\n", "c", "o", "n", "s", "t", " ", "i", "n", "n", "e", "r", "W", "i", "d", "t", "h", " ", "=", " ", "u", "t", "i", "l", "s", ".", "i", "n", "n", "e", "r", "W", "i", "d", "t", "h", "(", "w", "i", "d", "t", "h", ",", " ", "m", "a", "r", "g", "i", "n", ")", ";", "\n", "c", "o", "n", "s", "t", " ", "i", "n", "n", "e", "r", "H", "e", "i", "g", "h", "t", " ", "=", " ", "u", "t", "i", "l", "s", ".", "i", "n", "n", "e", "r", "H", "e", "i", "g", "h", "t", "(", "h", "e", "i", "g", "h", "t", ",", " ", "m", "a", "r", "g", "i", "n", ")", ";", "\n", " ", " ", ".", "a", "t", "t", "r", "(", "\"", "w", "i", "d", "t", "h", "\"", ",", " ", "w", "i", "d", "t", "h", ")", "\n", " ", " ", ".", "a", "t", "t", "r", "(", "\"", "h", "e", "i", "g", "h", "t", "\"", ",", " ", "h", "e", "i", "g", "h", "t", ")", ";", "\n", "c", "o", "n", "s", "t", " ", "x", " ", "=", " ", "d", "3", ".", "s", "c", "a", "l", "e", "L", "i", "n", "e", "a", "r", "(", ")", "\n", " ", " ", ".", "r", "a", "n", "g", "e", "(", "[", "0", ",", " ", "i", "n", "n", "e", "r", "W", "i", "d", "t", "h", "]", ")", ";", "\n", " ", " ", ".", "r", "a", "n", "g", "e", "(", "[", "i", "n", "n", "e", "r", "H", "e", "i", "g", "h", "t", ",", " ", "0", "]", ")", ";", "\n", "c", "o", "n", "s", "t", " ", "a", "r", "e", "a", " ", "=", " ", "d", "3", ".", "a", "r", "e", "a", "(", ")", "\n", " ", " ", ".", "y", "0", "(", "i", "n", "n", "e", "r", "H", "e", "i", "g", "h", "t", ")", "\n", " ", " ", ".", "y", "1", "(", "d", " ", "=", ">", " ", "y", "(", "d", ".", "y", ")", ")", "\n", " ", " ", ".", "c", "u", "r", "v", "e", "(", "d", "3", ".", "c", "u", "r", "v", "e", "M", "o", "n", "o", "t", "o", "n", "e", "X", ")", ";", "\n", "g", ".", "a", "p", "p", "e", "n", "d", "(", "\"", "p", "a", "t", "h", "\"", ")", "\n", " ", " ", ".", "a", "t", "t", "r", "(", "\"", "f", "i", "l", "l", "\"", ",", " ", "u", "t", "i", "l", "s", ".", "c", "o", "l", "o", "r", "s", "[", "3", "]", ")", "\n", " ", " ", ".", "a", "t", "t", "r", "(", "\"", "f", "i", "l", "l", "-", "o", "p", "a", "c", "i", "t", "y", "\"", ",", " ", "0", ".", "7", ")", "\n", "c", "o", "n", "s", "t", " ", "l", "i", "n", "e", " ", "=", " ", "d", "3", ".", "l", "i", "n", "e", "(", ")", "\n", " ", " ", ".", "a", "t", "t", "r", "(", "\"", "s", "t", "r", "o", "k", "e", "\"", ",", " ", "u", "t", "i", "l", "s", ".", "c", "o", "l", "o", "r", "s", "[", "3", "]", ")", "\n", " ", " ", ".", "a", "t", "t", "r", "(", "\"", "s", "t", "r", "o", "k", "e", "-", "w", "i", "d", "t", "h", "\"", ",", " ", "2", ")", "\n", " ", " ", ".", "a", "t", "t", "r", "(", "\"", "t", "r", "a", "n", "s", "f", "o", "r", "m", "\"", ",", " ", Grave, "t", "r", "a", "n", "s", "l", "a", "t", "e", "(", "0", ",", "$", "{", "i", "n", "n", "e", "r", "H", "e", "i", "g", "h", "t", "}", ")", Grave, ")", "\n">>
    @@
    \* 'scatter-plot', lines 714-755; kept: 714-717, 720-721, 725-726, 731, 733, 737, 741, 743-744, 746-747, 751
    "scatter-plot" :>
        <<"c", "o", "n", "s", "t", " ", "d", "a", "t", "a", " ", "=", " ", "d", "3", ".", "r", "a", "n", "g", "e", "(", "5", "0", ")", ".", "m", "a", "p", "(", "(", ")", " ", "=", ">", " ", "(", "{", "\n", " ", " ", "x", ":", " ", "M", "a", "t", "h", ".", "r", "a", "n", "d", "o", "m", "(", ")", " ", "*", " ", "1", "0", "0", ",", "\n", " ", " ", "y", ":", " ", "M", "a", "t", "h", ".", "r", "a", "n", "d", "o", "m", "(", ")", " ", "*", " ", "1", "0", "0", "\n", "}", ")", ")", ";", "\n", "c", "o", "n", "s", "t", " ", "i", "n", "n", "e", "r", "W", "i", "d", "t", "h", " ", "=", " ", "u", "t", "i", "l", "s", ".", "i", "n", "n", "e", "r", "W", "i", "d", "t", "h", "(", "w", "i", "d", "t", "h", ",", " ", "m", "a", "r", "g", "i", "n", ")", ";", "\n", "c", "o", "n", "s", "t", " ", "i", "n", "n", "e", "r", "H", "e", "i", "g", "h", "t", " ", "=", " ", "u", "t", "i", "l", "s", ".", "i", "n", "n", "e", "r", "H", "e", "i", "g", "h", "t", "(", "h", "e", "i", "g", "h", "t", ",", " ", "m", "a", "r", "g", "i", "n", ")", ";", "\n", " ", " ", ".", "a", "t", "t", "r", "(", "\"", "w", "i", "d", "t", "h", "\"", ",", " ", "w", "i", "d", "t", "h", ")", "\n", " ", " ", ".", "a", "t", "t", "r", "(", "\"", "h", "e", "i", "g", "h", "t", "\"", ",", " ", "h", "e", "i", "g", "h", "t", ")", ";", "\n", "c", "o", "n", "s", "t", " ", "x", " ", "=", " ", "d", "3", ".", "s", "c", "a", "l", "e", "L", "i", "n", "e", "a", "r", "(", ")", "\n", " ", " ", ".", "r", "a", "n", "g", "e", "(", "[", "0", ",", " ", "i", "n", "n", "e", "r", "W", "i", "d", "t", "h", "]", ")", ";", "\n", " ", " ", ".", "r", "a", "n", "g", "e", "(", "[", "i", "n", "n", "e", "r", "H", "e", "i", "g", "h", "t", ",", " ", "0", "]", ")", ";", "\n", " ", " ", ".", "e", "n", "t", "e", "r", "(", ")", ".", "a", "p", "p", "e", "n", "d", "(", "\"", "c", "i", "r", "c", "l", "e", "\"", ")", "\n", " ", " ", ".", "a", "t", "t", "r", "(", "\"", "c", "x", "\"", ",", " ", "d", " ", "=", ">", " ", "x", "(", "d", ".", "x", ")", ")", "\n", " ", " ", ".", "a", "t", "t", "r", "(", "\"", "c", "y", "\"", ",", " ", "d", " ", "=", ">", " ", "y", "(", "d", ".", "y", ")", ")", "\n", " ", " ", ".", "s", "t", "y", "l", "e", "(", "\"", "f", "i", "l", "l", "\"", ",", " ", "u", "t", "i", "l", "s", ".", "c", "o", "l", "o", "r", "s", "[", "1", "]", ")", "\n", " ", " ", ".", "s", "t", "y", "l", "e", "(", "\"", "o", "p", "a", "c", "i", "t", "y", "\"", ",", " ", "0", ".", "7", ")", ";", "\n", " ", " ", ".", "a", "t", "t", "r", "(", "\"", "t", "r", "a", "n", "s", "f", "o", "r", "m", "\"", ",", " ", Grave, "t", "r", "a", "n", "s", "l", "a", "t", "e", "(", "0", ",", "$", "{", "i", "n", "n", "e", "r", "H", "e", "i", "g", "h", "t", "}", ")", Grave, ")", "\n">>
    @@
    \* 'bubble-chart', lines 869-918; kept: 869-874, 877-878, 882-883, 888, 890, 894, 900, 902, 904-905, 907-908, 910, 914
    "bubble-chart" :>
        <<"c", "o", "n", "s", "t", " ", "d", "a", "t", "a", " ", "=", " ", "d", "3", ".", "r", "a", "n", "g", "e", "(", "3", "0", ")", ".", "m", "a", "p", "(", "(", ")", " ", "=", ">", " ", "(", "{", "\n", " ", " ", "x", ":", " ", "M", "a", "t", "h", ".", "r", "a", "n", "d", "o", "m", "(", ")", " ", "*", " ", "1", "0", "0", ",", "\n", " ", " ", "y", ":", " ", "M", "a", "t", "h", ".", "r", "a", "n", "d", "o", "m", "(", ")", " ", "*", " ", "1", "0", "0", ",", "\n", " ", " ", "s", "i", "z", "e", ":", " ", "M", "a", "t", "h", ".", "r", "a", "n", "d", "o", "m", "(", ")", " ", "*", " ", "5", "0", " ", "+", " ", "1", "0", ",", "\n", " ", " ", "c", "a", "t", "e", "g", "o", "r", "y", ":", " ", "M", "a", "t", "h", ".", "f", "l", "o", "o", "r", "(", "M", "a", "t", "h", ".", "r", "a", "n", "d", "o", "m", "(", ")", " ", "*", " ", "4", ")", "\n", "}", ")", ")", ";", "\n", "c", "o", "n", "s", "t", " ", "i", "n", "n", "e", "r", "W", "i", "d", "t", "h", " ", "=", " ", "u", "t", "i", "l", "s", ".", "i", "n", "n", "e", "r", "W", "i", "d", "t", "h", "(", "w", "i", "d", "t", "h", ",", " ", "m", "a", "r", "g", "i", "n", ")", ";", "\n", "c", "o", "n", "s", "t", " ", "i", "n", "n", "e", "r", "H", "e", "i", "g", "h", "t", " ", "=", " ", "u", "t", "i", "l", "s", ".", "i", "n", "n", "e", "r", "H", "e", "i", "g", "h", "t", "(", "h", "e", "i", "g", "h", "t", ",", " ", "m", "a", "r", "g", "i", "n", ")", ";", "\n", " ", " ", ".", "a", "t", "t", "r", "(", "\"", "w", "i", "d", "t", "h", "\"", ",", " ", "w", "i", "d", "t", "h", ")", "\n", " ", " ", ".", "a", "t", "t", "r", "(", "\"", "h", "e", "i", "g", "h", "t", "\"", ",", " ", "h", "e", "i", "g", "h", "t", ")", ";", "\n", "c", "o", "n", "s", "t", " ", "x", " ", "=", " ", "d", "3", ".", "s", "c", "a", "l", "e", "L", "i", "n", "e", "a", "r", "(", ")", "\n", " ", " ", ".", "r", "a", "n", "g", "e", "(", "[", "0", ",", " ", "i", "n", "n", "e", "r", "W", "i", "d", "t", "h", "]", ")", ";", "\n", " ", " ", ".", "r", "a", "n", "g", "e", "(", "[", "i", "n", "n", "e", "r", "H", "e", "i", "g", "h", "t", ",", " ", "0", "]", ")", ";", "\n", "g", ".", "s", "e", "l", "e", "c", "t", "A", "l", "l", "(", "\"", ".", "b", "u", "b", "b", "l", "e", "\"", ")", "\n", " ", " ", ".", "e", "n", "t", "e", "r", "(", ")", ".", "a", "p", "p", "e", "n", "d", "(", "\"", "c", "i", "r", "c", "l", "e", "\"", ")", "\n", " ", " ", ".", "a", "t", "t", "r", "(", "\"", "c", "x", "\"", ",", " ", "d", " ", "=", ">", " ", "x", "(", "d", ".", "x", ")", ")", "\n", " ", " ", ".", "a", "t", "t", "r", "(", "\"", "c", "y", "\"", ",", " ", "d", " ", "=", ">", " ", "y", "(", "d", ".", "y", ")", ")", "\n", " ", " ", ".", "s", "t", "y", "l", "e", "(", "\"", "f", "i", "l", "l", "\"", ",", " ", "d", " ", "=", ">", " ", "u", "t", "i", "l", "s", ".", "c", "o", "l", "o", "r", "s", "[", "d", ".", "c", "a", "t", "e", "g", "o", "r", "y", "]", ")", "\n", " ", " ", ".", "s", "t", "y", "l", "e", "(", "\"", "o", "p", "a", "c", "i", "t", "y", "\"", ",", " ", "0", ".", "7", ")", "\n", " ", " ", ".", "s", "t", "y", "l", "e", "(", "\"", "s", "t", "r", "o", "k", "e", "-", "w", "i", "d", "t", "h", "\"", ",", " ", "1", ")", ";", "\n", " ", " ", ".", "a", "t", "t", "r", "(", "\"", "t", "r", "a", "n", "s", "f", "o", "r", "m", "\"", ",", " ", Grave, "t", "r", "a", "n", "s", "l", "a", "t", "e", "(", "0", ",", "$", "{", "i", "n", "n", "e", "r", "H", "e", "i", "g", "h", "t", "}", ")", Grave, ")", "\n">>
    @@
    \* 'pie-chart', lines 920-959; kept: 920-926, 928, 932-933, 936, 938, 942-943, 951, 953-955
    "pie-chart" :>
        <<"c", "o", "n", "s", "t", " ", "d", "a", "t", "a", " ", "=", " ", "[", "\n", " ", " ", "{", "l", "a", "b", "e", "l", ":", " ", "'", "C", "a", "t", "e", "g", "o", "r", "y", " ", "A", "'", ",", " ", "v", "a", "l", "u", "e", ":", " ", "3", "0", "}", ",", "\n", " ", " ", "{", "l", "a", "b", "e", "l", ":", " ", "'", "C", "a", "t", "e", "g", "o", "r", "y", " ", "B", "'", ",", " ", "v", "a", "l", "u", "e", ":", " ", "2", "5", "}", ",", "\n", " ", " ", "{", "l", "a", "b", "e", "l", ":", " ", "'", "C", "a", "t", "e", "g", "o", "r", "y", " ", "C", "'", ",", " ", "v", "a", "l", "u", "e", ":", " ", "2", "0", "}", ",", "\n", " ", " ", "{", "l", "a", "b", "e", "l", ":", " ", "'", "C", "a", "t", "e", "g", "o", "r", "y", " ", "D", "'", ",", " ", "v", "a", "l", "u", "e", ":", " ", "1", "5", "}", ",", "\n", " ", " ", "{", "l", "a", "b", "e", "l", ":", " ", "'", "C", "a", "t", "e", "g", "o", "r", "y", " ", "E", "'", ",", " ", "v", "a", "l", "u", "e", ":", " ", "1", "0", "}", "\n", "]", ";", "\n", "c", "o", "n", "s", "t", " ", "r", "a", "d", "i", "u", "s", " ", "=", " ", "M", "a", "t", "h", ".", "m", "i", "n", "(", "w", "i", "d", "t", "h", ",", " ", "h", "e", "i", "g", "h", "t", ")", " ", "/", " ", "2", " ", "-", " ", "2", "0", ";", "\n", " ", " ", ".", "a", "t", "t", "r", "(", "\"", "w", "i", "d", "t", "h", "\"", ",", " ", "w", "i", "d", "t", "h", ")", "\n", " ", " ", ".", "a", "t", "t", "r", "(", "\"", "h", "e", "i", "g", "h", "t", "\"", ",", " ", "h", "e", "i", "g", "h", "t", ")", ";", "\n", " ", " ", ".", "a", "t", "t", "r", "(", "\"", "t", "r", "a", "n", "s", "f", "o", "r", "m", "\"", ",", " ", Grave, "t", "r", "a", "n", "s", "l", "a", "t", "e", "(", "$", "{", "w", "i", "d", "t", "h", "/", "2", "}", ",", "$", "{", "h", "e", "i", "g", "h", "t", "/", "2", "}", ")", Grave, ")", ";", "\n", "c", "o", "n", "s", "t", " ", "p", "i", "e", " ", "=", " ", "d", "3", ".", "p", "i", "e", "(", ")", "\n", "c", "o", "n", "s", "t", " ", "a", "r", "c", " ", "=", " ", "d", "3", ".", "a", "r", "c", "(", ")", "\n", " ", " ", ".", "i", "n", "n", "e", "r", "R", "a", "d", "i", "u", "s", "(", "0", ")", "\n", "a", "r", "c", "s", ".", "a", "p", "p", "e", "n", "d", "(", "\"", "p", "a", "t", "h", "\"", ")", "\n", " ", " ", ".", "s", "t", "y", "l", "e", "(", "\"", "f", "i", "l", "l", "\"", ",", " ", "(", "d", ",", " ", "i", ")", " ", "=", ">", " ", "u", "t", "i", "l", "s", ".", "c", "o", "l", "o", "r", "s", "[", "i", "]", ")", ";", "\n", "\n", "a", "r", "c", "s", ".", "a", "p", "p", "e", "n", "d", "(", "\"", "t", "e", "x", "t", "\"", ")", "\n">>
    @@
    \* 'donut-chart', lines 961-1008; kept: 961-965, 967-968, 972-973, 976, 978, 982, 991, 993-995
    "donut-chart" :>
        <<"c", "o", "n", "s", "t", " ", "d", "a", "t", "a", " ", "=", " ", "[", "\n", " ", " ", "{", "l", "a", "b", "e", "l", ":", " ", "'", "D", "e", "s", "k", "t", "o", "p", "'", ",", " ", "v", "a", "l", "u", "e", ":", " ", "4", "5", "}", ",", "\n", " ", " ", "{", "l", "a", "b", "e", "l", ":", " ", "'", "M", "o", "b", "i", "l", "e", "'", ",", " ", "v", "a", "l", "u", "e", ":", " ", "3", "5", "}", ",", "\n", " ", " ", "{", "l", "a", "b", "e", "l", ":", " ", "'", "T", "a", "b", "l", "e", "t", "'", ",", " ", "v", "a", "l", "u", "e", ":", " ", "2", "0", "}", "\n", "]", ";", "\n", "c", "o", "n", "s", "t", " ", "r", "a", "d", "i", "u", "s", " ", "=", " ", "M", "a", "t", "h", ".", "m", "i", "n", "(", "w", "i", "d", "t", "h", ",", " ", "h", "e", "i", "g", "h", "t", ")", " ", "/", " ", "2", " ", "-", " ", "2", "0", ";", "\n", "c", "o", "n", "s", "t", " ", "i", "n", "n", "e", "r", "R", "a", "d", "i", "u", "s", " ", "=", " ", "r", "a", "d", "i", "u", "s", " ", "*", " ", "0", ".", "6", ";", "\n", " ", " ", ".", "a", "t", "t", "r", "(", "\"", "w", "i", "d", "t", "h", "\"", ",", " ", "w", "i", "d", "t", "h", ")", "\n", " ", " ", ".", "a", "t", "t", "r", "(", "\"", "h", "e", "i", "g", "h", "t", "\"", ",", " ", "h", "e", "i", "g", "h", "t", ")", ";", "\n", " ", " ", ".", "a", "t", "t", "r", "(", "\"", "t", "r", "a", "n", "s", "f", "o", "r", "m", "\"", ",", " ", Grave, "t", "r", "a", "n", "s", "l", "a", "t", "e", "(", "$", "{", "w", "i", "d", "t", "h", "/", "2", "}", ",", "$", "{", "h", "e", "i", "g", "h", "t", "/", "2", "}", ")", Grave, ")", ";", "\n", "c", "o", "n", "s", "t", " ", "p", "i", "e", " ", "=", " ", "d", "3", ".", "p", "i", "e", "(", ")", "\n", "c", "o", "n", "s", "t", " ", "a", "r", "c", " ", "=", " ", "d", "3", ".", "a", "r", "c", "(", ")", "\n", "a", "r", "c", "s", ".", "a", "p", "p", "e", "n", "d", "(", "\"", "p", "a", "t", "h", "\"", ")", "\n", " ", " ", ".", "s", "t", "y", "l", "e", "(", "\"", "f", "i", "l", "l", "\"", ",", " ", "(", "d", ",", " ", "i", ")", " ", "=", ">", " ", "u", "t", "i", "l", "s", ".", "c", "o", "l", "o", "r", "s", "[", "i", "]", ")", ";", "\n", "\n", "a", "r", "c", "s", ".", "a", "p", "p", "e", "n", "d", "(", "\"", "t", "e", "x", "t", "\"", ")", "\n">>
    @@
    \* 'histogram', lines 1010-1056; kept: 1010, 1013-1014, 1018-1019, 1024, 1026, 1028, 1033, 1037, 1039, 1041, 1043, 1045-1048, 1052
    "histogram" :>
        <<"c", "o", "n", "s", "t", " ", "d", "a", "t", "a", " ", "=", " ", "d", "3", ".", "r", "a", "n", "g", "e", "(", "1", "0", "0", "0", ")", ".", "m", "a", "p", "(", "d", "3", ".", "r", "a", "n", "d", "o", "m", "N", "o", "r", "m", "a", "l", "(", "5", "0", ",", " ", "1", "5", ")", ")", ";", "\n", "c", "o", "n", "s", "t", " ", "i", "n", "n", "e", "r", "W", "i", "d", "t", "h", " ", "=", " ", "u", "t", "i", "l", "s", ".", "i", "n", "n", "e", "r", "W", "i", "d", "t", "h", "(", "w", "i", "d", "t", "h", ",", " ", "m", "a", "r", "g", "i", "n", ")", ";", "\n", "c", "o", "n", "s", "t", " ", "i", "n", "n", "e", "r", "H", "e", "i", "g", "h", "t", " ", "=", " ", "u", "t", "i", "l", "s", ".", "i", "n", "n", "e", "r", "H", "e", "i", "g", "h", "t", "(", "h", "e", "i", "g", "h", "t", ",", " ", "m", "a", "r", "g", "i", "n", ")", ";", "\n", " ", " ", ".", "a", "t", "t", "r", "(", "\"", "w", "i", "d", "t", "h", "\"", ",", " ", "w", "i", "d", "t", "h", ")", "\n", " ", " ", ".", "a", "t", "t", "r", "(", "\"", "h", "e", "i", "g", "h", "t", "\"", ",", " ", "h", "e", "i", "g", "h", "t", ")", ";", "\n", "c", "o", "n", "s", "t", " ", "x", " ", "=", " ", "d", "3", ".", "s", "c", "a", "l", "e", "L", "i", "n", "e", "a", "r", "(", ")", "\n", " ", " ", ".", "r", "a", "n", "g", "e", "(", "[", "0", ",", " ", "i", "n", "n", "e", "r", "W", "i", "d", "t", "h", "]", ")", ";", "\n", "c", "o", "n", "s", "t", " ", "h", "i", "s", "t", "o", "g", "r", "a", "m", " ", "=", " ", "d", "3", ".", "h", "i", "s", "t", "o", "g", "r", "a", "m", "(", ")", "\n", "c", "o", "n", "s", "t", " ", "b", "i", "n", "s", " ", "=", " ", "h", "i", "s", "t", "o", "g", "r", "a", "m", "(", "d", "a", "t", "a", ")", ";", "\n", " ", " ", ".", "r", "a", "n", "g", "e", "(", "[", "i", "n", "n", "e", "r", "H", "e", "i", "g", "h", "t", ",", " ", "0", "]", ")", ";", "\n", "g", ".", "s", "e", "l", "e", "c", "t", "A", "l", "l", "(", "\"", ".", "b", "a", "r", "\"", ")", "\n", " ", " ", ".", "e", "n", "t", "e", "r", "(", ")", ".", "a", "p", "p", "e", "n", "d", "(", "\"", "r", "e", "c", "t", "\"", ")", "\n", " ", " ", ".", "a", "t", "t", "r", "(", "\"", "x", "\"", ",", " ", "d", " ", "=", ">", " ", "x", "(", "d", ".", "x", "0", ")", ")", "\n", " ", " ", ".", "a", "t", "t", "r", "(", "\"", "w", "i", "d", "t", "h", "\"", ",", " ", "d", " ", "=", ">", " ", "M", "a", "t", "h", ".", "m", "a", "x", "(", "0", ",", " ", "x", "(", "d", ".", "x", "1", ")", " ", "-", " ", "x", "(", "d", ".", "x", "0", ")", " ", "-", " ", "1", ")", ")", "\n", " ", " ", ".", "a", "t", "t", "r", "(", "\"", "h", "e", "i", "g", "h", "t", "\"", ",", " ", "d", " ", "=", ">", " ", "i", "n", "n", "e", "r", "H", "e", "i", "g", "h", "t", " ", "-", " ", "y", "(", "d", ".", "l", "e", "n", "g", "t", "h", ")", ")", "\n", " ", " ", ".", "s", "t", "y", "l", "e", "(", "\"", "f", "i", "l", "l", "\"", ",", " ", "u", "t", "i", "l", "s", ".", "c", "o", "l", "o", "r", "s", "[", "4", "]", ")", "\n", " ", " ", ".", "s", "t", "y", "l", "e", "(", "\"", "o", "p", "a", "c", "i", "t", "y", "\"", ",", " ", "0", ".", "8", ")", ";", "\n", " ", " ", ".", "a", "t", "t", "r", "(", "\"", "t", "r", "a", "n", "s", "f", "o", "r", "m", "\"", ",", " ", Grave, "t", "r", "a", "n", "s", "l", "a", "t", "e", "(", "0", ",", "$", "{", "i", "n", "n", "e", "r", "H", "e", "i", "g", "h", "t", "}", ")", Grave, ")", "\n">>
    @@
    \* 'heatmap', lines 1058-1122; kept: 1058, 1070-1071, 1075-1076, 1081-1082, 1084, 1089, 1091-1097, 1107, 1118
    "heatmap" :>
        <<"c", "o", "n", "s", "t", " ", "d", "a", "t", "a", " ", "=", " ", "[", "]", ";", "\n", "c", "o", "n", "s", "t", " ", "i", "n", "n", "e", "r", "W", "i", "d", "t", "h", " ", "=", " ", "u", "t", "i", "l", "s", ".", "i", "n", "n", "e", "r", "W", "i", "d", "t", "h", "(", "w", "i", "d", "t", "h", ",", " ", "m", "a", "r", "g", "i", "n", ")", ";", "\n", "c", "o", "n", "s", "t", " ", "i", "n", "n", "e", "r", "H", "e", "i", "g", "h", "t", " ", "=", " ", "u", "t", "i", "l", "s", ".", "i", "n", "n", "e", "r", "H", "e", "i", "g", "h", "t", "(", "h", "e", "i", "g", "h", "t", ",", " ", "m", "a", "r", "g", "i", "n", ")", ";", "\n", " ", " ", ".", "a", "t", "t", "r", "(", "\"", "w", "i", "d", "t", "h", "\"", ",", " ", "w", "i", "d", "t", "h", ")", "\n", " ", " ", ".", "a", "t", "t", "r", "(", "\"", "h", "e", "i", "g", "h", "t", "\"", ",", " ", "h", "e", "i", "g", "h", "t", ")", ";", "\n", "c", "o", "n", "s", "t", " ", "c", "e", "l", "l", "W", "i", "d", "t", "h", " ", "=", " ", "i", "n", "n", "e", "r", "W", "i", "d", "t", "h", " ", "/", " ", "8", ";", "\n", "c", "o", "n", "s", "t", " ", "c", "e", "l", "l", "H", "e", "i", "g", "h", "t", " ", "=", " ", "i", "n", "n", "e", "r", "H", "e", "i", "g", "h", "t", " ", "/", " ", "1", "0", ";", "\n", "c", "o", "n", "s", "t", " ", "c", "o", "l", "o", "r", "S", "c", "a", "l", "e", " ", "=", " ", "d", "3", ".", "s", "c", "a", "l", "e", "S", "e", "q", "u", "e", "n", "t", "i", "a", "l", "(", "d", "3", ".", "i", "n", "t", "e", "r", "p", "o", "l", "a", "t", "e", "B", "l", "u", "e", "s", ")", "\n", " ", " ", ".", "e", "n", "t", "e", "r", "(", ")", ".", "a", "p", "p", "e", "n", "d", "(", "\"", "r", "e", "c", "t", "\"", ")", "\n", " ", " ", ".", "a", "t", "t", "r", "(", "\"", "x", "\"", ",", " ", "d", " ", "=", ">", " ", "d", ".", "c", "o", "l", " ", "*", " ", "c", "e", "l", "l", "W", "i", "d", "t", "h", ")", "\n", " ", " ", ".", "a", "t", "t", "r", "(", "\"", "y", "\"", ",", " ", "d", " ", "=", ">", " ", "d", ".", "r", "o", "w", " ", "*", " ", "c", "e", "l", "l", "H", "e", "i", "g", "h", "t", ")", "\n", " ", " ", ".", "a", "t", "t", "r", "(", "\"", "w", "i", "d", "t", "h", "\"", ",", " ", "c", "e", "l", "l", "W", "i", "d", "t", "h", " ", "-", " ", "1", ")", "\n", " ", " ", ".", "a", "t", "t", "r", "(", "\"", "h", "e", "i", "g", "h", "t", "\"", ",", " ", "c", "e", "l", "l", "H", "e", "i", "g", "h", "t", " ", "-", " ", "1", ")", "\n", " ", " ", ".", "s", "t", "y", "l", "e", "(", "\"", "f", "i", "l", "l", "\"", ",", " ", "d", " ", "=", ">", " ", "c", "o", "l", "o", "r", "S", "c", "a", "l", "e", "(", "d", ".", "v", "a", "l", "u", "e", ")", ")", "\n", " ", " ", ".", "s", "t", "y", "l", "e", "(", "\"", "s", "t", "r", "o", "k", "e", "\"", ",", " ", "\"", "w", "h", "i", "t", "e", "\"", ")", "\n", " ", " ", ".", "s", "t", "y", "l", "e", "(", "\"", "s", "t", "r", "o", "k", "e", "-", "w", "i", "d", "t", "h", "\"", ",", " ", "1", ")", ";", "\n", " ", " ", ".", "a", "t", "t", "r", "(", "\"", "x", "\"", ",", " ", "(", "d", ",", " ", "i", ")", " ", "=", ">", " ", "i", " ", "*", " ", "c", "e", "l", "l", "W", "i", "d", "t", "h", " ", "+", " ", "c", "e", "l", "l", "W", "i", "d", "t", "h", " ", "/", " ", "2", ")", "\n", " ", " ", ".", "a", "t", "t", "r", "(", "\"", "y", "\"", ",", " ", "(", "d", ",", " ", "i", ")", " ", "=", ">", " ", "i", " ", "*", " ", "c", "e", "l", "l", "H", "e", "i", "g", "h", "t", " ", "+", " ", "c", "e", "l", "l", "H", "e", "i", "g", "h", "t", " ", "/", " ", "2", ")", "\n">>
    @@
    \* 'timeline', lines 1318-1392; kept: 1318-1325, 1331-1332, 1336-1337, 1344, 1346, 1348, 1350, 1353-1357, 1362, 1364-1365, 1367, 1369, 1376-1377, 1388
    "timeline" :>
        <<"c", "o", "n", "s", "t", " ", "e", "v", "e", "n", "t", "s", " ", "=", " ", "[", "\n", " ", " ", "{", "d", "a", "t", "e", ":", " ", "\"", "2", "0", "2", "3", "-", "0", "1", "\"", ",", " ", "e", "v", "e", "n", "t", ":", " ", "\"", "P", "r", "o", "j", "e", "c", "t", " ", "S", "t", "a", "r", "t", "e", "d", "\"", ",", " ", "t", "y", "p", "e", ":", " ", "\"", "m", "i", "l", "e", "s", "t", "o", "n", "e", "\"", "}", ",", "\n", " ", " ", "{", "d", "a", "t", "e", ":", " ", "\"", "2", "0", "2", "3", "-", "0", "3", "\"", ",", " ", "e", "v", "e", "n", "t", ":", " ", "\"", "P", "h", "a", "s", "e", " ", "1", " ", "C", "o", "m", "p", "l", "e", "t", "e", "\"", ",", " ", "t", "y", "p", "e", ":", " ", "\"", "m", "i", "l", "e", "s", "t", "o", "n", "e", "\"", "}", ",", "\n", " ", " ", "{", "d", "a", "t", "e", ":", " ", "\"", "2", "0", "2", "3", "-", "0", "5", "\"", ",", " ", "e", "v", "e", "n", "t", ":", " ", "\"", "B", "e", "t", "a", " ", "R", "e", "l", "e", "a", "s", "e", "\"", ",", " ", "t", "y", "p", "e", ":", " ", "\"", "r", "e", "l", "e", "a", "s", "e", "\"", "}", ",", "\n", " ", " ", "{", "d", "a", "t", "e", ":", " ", "\"", "2", "0", "2", "3", "-", "0", "7", "\"", ",", " ", "e", "v", "e", "n", "t", ":", " ", "\"", "U", "s", "e", "r", " ", "T", "e", "s", "t", "i", "n", "g", "\"", ",", " ", "t", "y", "p", "e", ":", " ", "\"", "t", "e", "s", "t", "i", "n", "g", "\"", "}", ",", "\n", " ", " ", "{", "d", "a", "t", "e", ":", " ", "\"", "2", "0", "2", "3", "-", "0", "9", "\"", ",", " ", "e", "v", "e", "n", "t", ":", " ", "\"", "F", "i", "n", "a", "l", " ", "R", "e", "l", "e", "a", "s", "e", "\"", ",", " ", "t", "y", "p", "e", ":", " ", "\"", "r", "e", "l", "e", "a", "s", "e", "\"", "}", ",", "\n", " ", " ", "{", "d", "a", "t", "e", ":", " ", "\"", "2", "0", "2", "3", "-", "1", "1", "\"", ",", " ", "e", "v", "e", "n", "t", ":", " ", "\"", "P", "r", "o", "j", "e", "c", "t", " ", "E", "n", "d", "\"", ",", " ", "t", "y", "p", "e", ":", " ", "\"", "m", "i", "l", "e", "s", "t", "o", "n", "e", "\"", "}", "\n", "]", ";", "\n", "c", "o", "n", "s", "t", " ", "i", "n", "n", "e", "r", "W", "i", "d", "t", "h", " ", "=", " ", "u", "t", "i", "l", "s", ".", "i", "n", "n", "e", "r", "W", "i", "d", "t", "h", "(", "w", "i", "d", "t", "h", ",", " ", "m", "a", "r", "g", "i", "n", ")", ";", "\n", "c", "o", "n", "s", "t", " ", "i", "n", "n", "e", "r", "H", "e", "i", "g", "h", "t", " ", "=", " ", "u", "t", "i", "l", "s", ".", "i", "n", "n", "e", "r", "H", "e", "i", "g", "h", "t", "(", "h", "e", "i", "g", "h", "t", ",", " ", "m", "a", "r", "g", "i", "n", ")", ";", "\n", " ", " ", ".", "a", "t", "t", "r", "(", "\"", "w", "i", "d", "t", "h", "\"", ",", " ", "w", "i", "d", "t", "h", ")", "\n", " ", " ", ".", "a", "t", "t", "r", "(", "\"", "h", "e", "i", "g", "h", "t", "\"", ",", " ", "h", "e", "i", "g", "h", "t", ")", ";", "\n", " ", " ", ".", "r", "a", "n", "g", "e", "(", "[", "0", ",", " ", "i", "n", "n", "e", "r", "W", "i", "d", "t", "h", "]", ")", ";", "\n", "c", "o", "n", "s", "t", " ", "c", "o", "l", "o", "r", "S", "c", "a", "l", "e", " ", "=", " ", "d", "3", ".", "s", "c", "a", "l", "e", "O", "r", "d", "i", "n", "a", "l", "(", ")", "\n", " ", " ", ".", "r", "a", "n", "g", "e", "(", "[", "u", "t", "i", "l", "s", ".", "c", "o", "l", "o", "r", "s", "[", "0", "]", ",", " ", "u", "t", "i", "l", "s", ".", "c", "o", "l", "o", "r", "s", "[", "1", "]", ",", " ", "u", "t", "i", "l", "s", ".", "c", "o", "l", "o", "r", "s", "[", "2", "]", "]", ")", ";", "\n", "/", "/", " ", "T", "i", "m", "e", "l", "i", "n", "e", " ", "l", "i", "n", "e", "\n", " ", " ", ".", "a", "t", "t", "r", "(", "\"", "x", "2", "\"", ",", " ", "i", "n", "n", "e", "r", "W", "i", "d", "t", "h", ")", "\n", " ", " ", ".", "a", "t", "t", "r", "(", "\"", "y", "1", "\"", ",", " ", "i", "n", "n", "e", "r", "H", "e", "i", "g", "h", "t", " ", "/", " ", "2", ")", "\n", " ", " ", ".", "a", "t", "t", "r", "(", "\"", "y", "2", "\"", ",", " ", "i", "n", "n", "e", "r", "H", "e", "i", "g", "h", "t", " ", "/", " ", "2", ")", "\n", " ", " ", ".", "s", "t", "y", "l", "e", "(", "\"", "s", "t", "r", "o", "k", "e", "\"", ",", " ", "\"", "#", "9", "9", "9", "\"", ")", "\n", " ", " ", ".", "s", "t", "y", "l", "e", "(", "\"", "s", "t", "r", "o", "k", "e", "-", "w", "i", "d", "t", "h", "\"", ",", " ", "3", ")", ";", "\n", " ", " ", ".", "e", "n", "t", "e", "r", "(", ")", ".", "a", "p", "p", "e", "n", "d", "(", "\"", "c", "i", "r", "c", "l", "e", "\"", ")", "\n", " ", " ", ".", "a", "t", "t", "r", "(", "\"", "c", "x", "\"", ",", " ", "d", " ", "=", ">", " ", "x", "(", "d", ".", "p", "a", "r", "s", "e", "d", "D", "a", "t", "e", ")", ")", "\n", " ", " ", ".", "a", "t", "t", "r", "(", "\"", "c", "y", "\"", ",", " ", "i", "n", "n", "e", "r", "H", "e", "i", "g", "h", "t", " ", "/", " ", "2", ")", "\n", " ", " ", ".", "s", "t", "y", "l", "e", "(", "\"", "f", "i", "l", "l", "\"", ",", " ", "d", " ", "=", ">", " ", "c", "o", "l", "o", "r", "S", "c", "a", "l", "e", "(", "d", ".", "t", "y", "p", "e", ")", ")", "\n", " ", " ", ".", "s", "t", "y", "l", "e", "(", "\"", "s", "t", "r", "o", "k", "e", "-", "w", "i", "d", "t", "h", "\"", ",", " ", "3", ")", ";", "\n", " ", " ", ".", "a", "t", "t", "r", "(", "\"", "x", "\"", ",", " ", "d", " ", "=", ">", " ", "x", "(", "d", ".", "p", "a", "r", "s", "e", "d", "D", "a", "t", "e", ")", ")", "\n", " ", " ", ".", "a", "t", "t", "r", "(", "\"", "y", "\"", ",", " ", "(", "d", ",", " ", "i", ")", " ", "=", ">", " ", "i", " ", "%", " ", "2", " ", "=", "=", "=", " ", "0", " ", "?", " ", "i", "n", "n", "e", "r", "H", "e", "i", "g", "h", "t", " ", "/", " ", "2", " ", "-", " ", "2", "0", " ", ":", " ", "i", "n", "n", "e", "r", "H", "e", "i", "g", "h", "t", " ", "/", " ", "2", " ", "+", " ", "3", "5", ")", "\n", " ", " ", ".", "a", "t", "t", "r", "(", "\"", "y", "\"", ",", " ", "(", "d", ",", " ", "i", ")", " ", "=", ">", " ", "i", " ", "%", " ", "2", " ", "=", "=", "=", " ", "0", " ", "?", " ", "i", "n", "n", "e", "r", "H", "e", "i", "g", "h", "t", " ", "/", " ", "2", " ", "-", " ", "3", "5", " ", ":", " ", "i", "n", "n", "e", "r", "H", "e", "i", "g", "h", "t", " ", "/", " ", "2", " ", "+", " ", "5", "0", ")", "\n">>
    @@
    \* 'radar', lines 1394-1478; kept: 1394-1401, 1404, 1411-1412, 1415, 1419, 1423, 1425, 1427, 1439, 1443, 1447, 1454-1455, 1458, 1460, 1463-1466, 1473, 1476, 1478
    "radar" :>
        <<"c", "o", "n", "s", "t", " ", "d", "a", "t", "a", " ", "=", " ", "[", "\n", " ", " ", "{", "a", "x", "i", "s", ":", " ", "\"", "S", "p", "e", "e", "d", "\"", ",", " ", "v", "a", "l", "u", "e", ":", " ", "0", ".", "8", "}", ",", "\n", " ", " ", "{", "a", "x", "i", "s", ":", " ", "\"", "R", "e", "l", "i", "a", "b", "i", "l", "i", "t", "y", "\"", ",", " ", "v", "a", "l", "u", "e", ":", " ", "0", ".", "6", "}", ",", "\n", " ", " ", "{", "a", "x", "i", "s", ":", " ", "\"", "C", "o", "m", "f", "o", "r", "t", "\"", ",", " ", "v", "a", "l", "u", "e", ":", " ", "0", ".", "9", "}", ",", "\n", " ", " ", "{", "a", "x", "i", "s", ":", " ", "\"", "S", "a", "f", "e", "t", "y", "\"", ",", " ", "v", "a", "l", "u", "e", ":", " ", "0", ".", "7", "}", ",", "\n", " ", " ", "{", "a", "x", "i", "s", ":", " ", "\"", "E", "f", "f", "i", "c", "i", "e", "n", "c", "y", "\"", ",", " ", "v", "a", "l", "u", "e", ":", " ", "0", ".", "5", "}", ",", "\n", " ", " ", "{", "a", "x", "i", "s", ":", " ", "\"", "P", "r", "i", "c", "e", "\"", ",", " ", "v", "a", "l", "u", "e", ":", " ", "0", ".", "3", "}", "\n", "]", ";", "\n", " ", " ", "r", "a", "d", "i", "u", "s", ":", " ", "M", "a", "t", "h", ".", "m", "i", "n", "(", "w", "i", "d", "t", "h", ",", " ", "h", "e", "i", "g", "h", "t", ")", " ", "/", " ", "2", " ", "-", " ", "5", "0", ",", "\n", " ", " ", ".", "a", "t", "t", "r", "(", "\"", "w", "i", "d", "t", "h", "\"", ",", " ", "w", "i", "d", "t", "h", ")", "\n", " ", " ", ".", "a", "t", "t", "r", "(", "\"", "h", "e", "i", "g", "h", "t", "\"", ",", " ", "h", "e", "i", "g", "h", "t", ")", ";", "\n", " ", " ", ".", "a", "t", "t", "r", "(", "\"", "t", "r", "a", "n", "s", "f", "o", "r", "m", "\"", ",", " ", Grave, "t", "r", "a", "n", "s", "l", "a", "t", "e", "(", "$", "{", "w", "i", "d", "t", "h", "/", "2", "}", ",", "$", "{", "h", "e", "i", "g", "h", "t", "/", "2", "}", ")", Grave, ")", ";", "\n", "/", "/", " ", "C", "r", "e", "a", "t", "e", " ", "t", "h", "e", " ", "b", "a", "c", "k", "g", "r", "o", "u", "n", "d", " ", "c", "i", "r", "c", "l", "e", "s", "\n", " ", " ", "g", ".", "a", "p", "p", "e", "n", "d", "(", "\"", "c", "i", "r", "c", "l", "e", "\"", ")", "\n", " ", " ", " ", " ", ".", "s", "t", "y", "l", "e", "(", "\"", "f", "i", "l", "l", "\"", ",", " ", "\"", "n", "o", "n", "e", "\"", ")", "\n", " ", " ", " ", " ", ".", "s", "t", "y", "l", "e", "(", "\"", "s", "t", "r", "o", "k", "e", "-", "w", "i", "d", "t", "h", "\"", ",", " ", "\"", "1", "p", "x", "\"", ")", "\n", " ", " ", ".", "a", "t", "t", "r", "(", "\"", "y", "1", "\"", ",", " ", "0", ")", "\n", " ", " ", ".", "s", "t", "y", "l", "e", "(", "\"", "s", "t", "r", "o", "k", "e", "-", "w", "i", "d", "t", "h", "\"", ",", " ", "\"", "2", "p", "x", "\"", ")", ";", "\n", " ", " ", ".", "a", "t", "t", "r", "(", "\"", "x", "\"", ",", " ", "(", "d", ",", " ", "i", ")", " ", "=", ">", " ", "(", "c", "f", "g", ".", "r", "a", "d", "i", "u", "s", " ", "+", " ", "2", "0", ")", " ", "*", " ", "M", "a", "t", "h", ".", "c", "o", "s", "(", "a", "n", "g", "l", "e", "S", "l", "i", "c", "e", " ", "*", " ", "i", " ", "-", " ", "M", "a", "t", "h", ".", "P", "I", " ", "/", " ", "2", ")", ")", "\n", "/", "/", " ", "C", "r", "e", "a", "t", "e", " ", "t", "h", "e", " ", "r", "a", "d", "a", "r", " ", "l", "i", "n", "e", "\n", "c", "o", "n", "s", "t", " ", "r", "a", "d", "a", "r", "L", "i", "n", "e", " ", "=", " ", "d", "3", ".", "l", "i", "n", "e", "R", "a", "d", "i", "a", "l", "(", ")", "\n", " ", " ", ".", "c", "u", "r", "v", "e", "(", "d", "3", ".", "c", "u", "r", "v", "e", "L", "i", "n", "e", "a", "r", "C", "l", "o", "s", "e", "d", ")", ";", "\n", "c", "o", "n", "s", "t", " ", "r", "a", "d", "a", "r", "P", "a", "t", "h", " ", "=", " ", "g", ".", "a", "p", "p", "e", "n", "d", "(", "\"", "p", "a", "t", "h", "\"", ")", "\n", " ", " ", ".", "s", "t", "y", "l", "e", "(", "\"", "f", "i", "l", "l", "\"", ",", " ", "u", "t", "i", "l", "s", ".", "c", "o", "l", "o", "r", "s", "[", "0", "]", ")", "\n", " ", " ", ".", "s", "t", "y", "l", "e", "(", "\"", "f", "i", "l", "l", "-", "o", "p", "a", "c", "i", "t", "y", "\"", ",", " ", "0", ".", "3", ")", "\n", " ", " ", ".", "s", "t", "y", "l", "e", "(", "\"", "s", "t", "r", "o", "k", "e", "\"", ",", " ", "u", "t", "i", "l", "s", ".", "c", "o", "l", "o", "r", "s", "[", "0", "]", ")", "\n", " ", " ", ".", "s", "t", "y", "l", "e", "(", "\"", "s", "t", "r", "o", "k", "e", "-", "w", "i", "d", "t", "h", "\"", ",", " ", "\"", "2", "p", "x", "\"", ")", ";", "\n", " ", " ", ".", "a", "t", "t", "r", "(", "\"", "c", "x", "\"", ",", " ", "(", "d", ",", " ", "i", ")", " ", "=", ">", " ", "c", "f", "g", ".", "r", "a", "d", "i", "u", "s", " ", "*", " ", "(", "d", ".", "v", "a", "l", "u", "e", " ", "/", " ", "c", "f", "g", ".", "m", "a", "x", "V", "a", "l", "u", "e", ")", " ", "*", " ", "M", "a", "t", "h", ".", "c", "o", "s", "(", "a", "n", "g", "l", "e", "S", "l", "i", "c", "e", " ", "*", " ", "i", " ", "-", " ", "M", "a", "t", "h", ".", "P", "I", " ", "/", " ", "2", ")", ")", "\n", " ", " ", ".", "s", "t", "y", "l", "e", "(", "\"", "f", "i", "l", "l", "\"", ",", " ", "u", "t", "i", "l", "s", ".", "c", "o", "l", "o", "r", "s", "[", "0", "]", ")", "\n", " ", " ", ".", "s", "t", "y", "l", "e", "(", "\"", "s", "t", "r", "o", "k", "e", "-", "w", "i", "d", "t", "h", "\"", ",", " ", "\"", "2", "p", "x", "\"", ")", ";", "\n">>
    @@
    \* 'box-plot', lines 1628-1729; kept: 1628-1633, 1636-1637, 1641-1642, 1647, 1649, 1653, 1655, 1657, 1677, 1680, 1683, 1686, 1688-1689, 1694-1695, 1699, 1703-1704, 1706-1711, 1715-1716, 1720, 1725
    "box-plot" :>
        <<"c", "o", "n", "s", "t", " ", "d", "a", "t", "a", " ", "=", " ", "[", "\n", " ", " ", "{", "c", "a", "t", "e", "g", "o", "r", "y", ":", " ", "'", "A", "'", ",", " ", "v", "a", "l", "u", "e", "s", ":", " ", "d", "3", ".", "r", "a", "n", "g", "e", "(", "1", "0", "0", ")", ".", "m", "a", "p", "(", "(", ")", " ", "=", ">", " ", "d", "3", ".", "r", "a", "n", "d", "o", "m", "N", "o", "r", "m", "a", "l", "(", "5", "0", ",", " ", "1", "5", ")", "(", ")", ")", "}", ",", "\n", " ", " ", "{", "c", "a", "t", "e", "g", "o", "r", "y", ":", " ", "'", "B", "'", ",", " ", "v", "a", "l", "u", "e", "s", ":", " ", "d", "3", ".", "r", "a", "n", "g", "e", "(", "1", "0", "0", ")", ".", "m", "a", "p", "(", "(", ")", " ", "=", ">", " ", "d", "3", ".", "r", "a", "n", "d", "o", "m", "N", "o", "r", "m", "a", "l", "(", "6", "0", ",", " ", "2", "0", ")", "(", ")", ")", "}", ",", "\n", " ", " ", "{", "c", "a", "t", "e", "g", "o", "r", "y", ":", " ", "'", "C", "'", ",", " ", "v", "a", "l", "u", "e", "s", ":", " ", "d", "3", ".", "r", "a", "n", "g", "e", "(", "1", "0", "0", ")", ".", "m", "a", "p", "(", "(", ")", " ", "=", ">", " ", "d", "3", ".", "r", "a", "n", "d", "o", "m", "N", "o", "r", "m", "a", "l", "(", "4", "0", ",", " ", "1", "0", ")", "(", ")", ")", "}", ",", "\n", " ", " ", "{", "c", "a", "t", "e", "g", "o", "r", "y", ":", " ", "'", "D", "'", ",", " ", "v", "a", "l", "u", "e", "s", ":", " ", "d", "3", ".", "r", "a", "n", "g", "e", "(", "1", "0", "0", ")", ".", "m", "a", "p", "(", "(", ")", " ", "=", ">", " ", "d", "3", ".", "r", "a", "n", "d", "o", "m", "N", "o", "r", "m", "a", "l", "(", "7", "0", ",", " ", "2", "5", ")", "(", ")", ")", "}", "\n", "]", ";", "\n", "c", "o", "n", "s", "t", " ", "i", "n", "n", "e", "r", "W", "i", "d", "t", "h", " ", "=", " ", "u", "t", "i", "l", "s", ".", "i", "n", "n", "e", "r", "W", "i", "d", "t", "h", "(", "w", "i", "d", "t", "h", ",", " ", "m", "a", "r", "g", "i", "n", ")", ";", "\n", "c", "o", "n", "s", "t", " ", "i", "n", "n", "e", "r", "H", "e", "i", "g", "h", "t", " ", "=", " ", "u", "t", "i", "l", "s", ".", "i", "n", "n", "e", "r", "H", "e", "i", "g", "h", "t", "(", "h", "e", "i", "g", "h", "t", ",", " ", "m", "a", "r", "g", "i", "n", ")", ";", "\n", " ", " ", ".", "a", "t", "t", "r", "(", "\"", "w", "i", "d", "t", "h", "\"", ",", " ", "w", "i", "d", "t", "h", ")", "\n", " ", " ", ".", "a", "t", "t", "r", "(", "\"", "h", "e", "i", "g", "h", "t", "\"", ",", " ", "h", "e", "i", "g", "h", "t", ")", ";", "\n", "c", "o", "n", "s", "t", " ", "x", " ", "=", " ", "d", "3", ".", "s", "c", "a", "l", "e", "B", "a", "n", "d", "(", ")", "\n", " ", " ", ".", "r", "a", "n", "g", "e", "(", "[", "0", ",", " ", "i", "n", "n", "e", "r", "W", "i", "d", "t", "h", "]", ")", "\n", "c", "o", "n", "s", "t", " ", "y", " ", "=", " ", "d", "3", ".", "s", "c", "a", "l", "e", "L", "i", "n", "e", "a", "r", "(", ")", "\n", " ", " ", ".", "r", "a", "n", "g", "e", "(", "[", "i", "n", "n", "e", "r", "H", "e", "i", "g", "h", "t", ",", " ", "0", "]", ")", ";", "\n", "/", "/", " ", "C", "a", "l", "c", "u", "l", "a", "t", "e", " ", "q", "u", "a", "r", "t", "i", "l", "e", "s", " ", "f", "o", "r", " ", "e", "a", "c", "h", " ", "c", "a", "t", "e", "g", "o", "r", "y", "\n", "c", "o", "n", "s", "t", " ", "b", "o", "x", "W", "i", "d", "t", "h", " ", "=", " ", "x", ".", "b", "a", "n", "d", "w", "i", "d", "t", "h", "(", ")", " ", "*", " ", "0", ".", "7", ";", "\n", " ", " ", "c", "o", "n", "s", "t", " ", "c", "e", "n", "t", "e", "r", "X", " ", "=", " ", "x", "(", "d", ".", "c", "a", "t", "e", "g", "o", "r", "y", ")", " ", "+", " ", "x", ".", "b", "a", "n", "d", "w", "i", "d", "t", "h", "(", ")", " ", "/", " ", "2", ";", "\n", " ", " ", "g", ".", "a", "p", "p", "e", "n", "d", "(", "\"", "l", "i", "n", "e", "\"", ")", "\n", " ", " ", " ", " ", ".", "a", "t", "t", "r", "(", "\"", "y", "1", "\"", ",", " ", "y", "(", "d", ".", "m", "i", "n", ")", ")", "\n", " ", " ", " ", " ", ".", "s", "t", "y", "l", "e", "(", "\"", "s", "t", "r", "o", "k", "e", "\"", ",", " ", "\"", "#", "6", "6", "6", "\"", ")", "\n", " ", " ", " ", " ", ".", "s", "t", "y", "l", "e", "(", "\"", "s", "t", "r", "o", "k", "e", "-", "w", "i", "d", "t", "h", "\"", ",", " ", "1", ")", ";", "\n", " ", " ", " ", " ", " ", " ", ".", "a", "t", "t", "r", "(", "\"", "x", "1", "\"", ",", " ", "c", "e", "n", "t", "e", "r", "X", " ", "-", " ", "b", "o", "x", "W", "i", "d", "t", "h", " ", "/", " ", "4", ")", "\n", " ", " ", " ", " ", " ", " ", ".", "a", "t", "t", "r", "(", "\"", "x", "2", "\"", ",", " ", "c", "e", "n", "t", "e", "r", "X", " ", "+", " ", "b", "o", "x", "W", "i", "d", "t", "h", " ", "/", " ", "4", ")", "\n", " ", " ", " ", " ", " ", " ", ".", "s", "t", "y", "l", "e", "(", "\"", "s", "t", "r", "o", "k", "e", "-", "w", "i", "d", "t", "h", "\"", ",", " ", "1", ")", ";", "\n", " ", " ", "g", ".", "a", "p", "p", "e", "n", "d", "(", "\"", "r", "e", "c", "t", "\"", ")", "\n", " ", " ", " ", " ", ".", "a", "t", "t", "r", "(", "\"", "x", "\"", ",", " ", "c", "e", "n", "t", "e", "r", "X", " ", "-", " ", "b", "o", "x", "W", "i", "d", "t", "h", " ", "/", " ", "2", ")", "\n", " ", " ", " ", " ", ".", "a", "t", "t", "r", "(", "\"", "w", "i", "d", "t", "h", "\"", ",", " ", "b", "o", "x", "W", "i", "d", "t", "h", ")", "\n", " ", " ", " ", " ", ".", "a", "t", "t", "r", "(", "\"", "h", "e", "i", "g", "h", "t", "\"", ",", " ", "y", "(", "d", ".", "q", "1", ")", " ", "-", " ", "y", "(", "d", ".", "q", "3", ")", ")", "\n", " ", " ", " ", " ", ".", "s", "t", "y", "l", "e", "(", "\"", "f", "i", "l", "l", "\"", ",", " ", "u", "t", "i", "l", "s", ".", "c", "o", "l", "o", "r", "s", "[", "0", "]", ")", "\n", " ", " ", " ", " ", ".", "s", "t", "y", "l", "e", "(", "\"", "f", "i", "l", "l", "-", "o", "p", "a", "c", "i", "t", "y", "\"", ",", " ", "0", ".", "7", ")", "\n", " ", " ", " ", " ", ".", "s", "t", "y", "l", "e", "(", "\"", "s", "t", "r", "o", "k", "e", "\"", ",", " ", "u", "t", "i", "l", "s", ".", "c", "o", "l", "o", "r", "s", "[", "0", "]", ")", "\n", " ", " ", " ", " ", ".", "s", "t", "y", "l", "e", "(", "\"", "s", "t", "r", "o", "k", "e", "-", "w", "i", "d", "t", "h", "\"", ",", " ", "2", ")", ";", "\n", " ", " ", " ", " ", ".", "a", "t", "t", "r", "(", "\"", "x", "1", "\"", ",", " ", "c", "e", "n", "t", "e", "r", "X", " ", "-", " ", "b", "o", "x", "W", "i", "d", "t", "h", " ", "/", " ", "2", ")", "\n", " ", " ", " ", " ", ".", "a", "t", "t", "r", "(", "\"", "x", "2", "\"", ",", " ", "c", "e", "n", "t", "e", "r", "X", " ", "+", " ", "b", "o", "x", "W", "i", "d", "t", "h", " ", "/", " ", "2", ")", "\n", " ", " ", " ", " ", ".", "s", "t", "y", "l", "e", "(", "\"", "s", "t", "r", "o", "k", "e", "-", "w", "i", "d", "t", "h", "\"", ",", " ", "2", ")", ";", "\n", " ", " ", ".", "a", "t", "t", "r", "(", "\"", "t", "r", "a", "n", "s", "f", "o", "r", "m", "\"", ",", " ", Grave, "t", "r", "a", "n", "s", "l", "a", "t", "e", "(", "0", ",", "$", "{", "i", "n", "n", "e", "r", "H", "e", "i", "g", "h", "t", "}", ")", Grave, ")", "\n">>
    @@
    \* 'stacked-bar-chart', lines 2794-2849; kept: 2794-2799, 2802-2803, 2807-2808, 2815, 2818, 2820, 2822, 2825, 2827, 2834-2835, 2838-2839, 2841-2842, 2845
    "stacked-bar-chart" :>
        <<"c", "o", "n", "s", "t", " ", "d", "a", "t", "a", " ", "=", " ", "[", "\n", " ", " ", "{", "c", "a", "t", "e", "g", "o", "r", "y", ":", " ", "\"", "A", "\"", ",", " ", "s", "e", "r", "i", "e", "s", "1", ":", " ", "2", "0", ",", " ", "s", "e", "r", "i", "e", "s", "2", ":", " ", "1", "5", ",", " ", "s", "e", "r", "i", "e", "s", "3", ":", " ", "1", "0", "}", ",", "\n", " ", " ", "{", "c", "a", "t", "e", "g", "o", "r", "y", ":", " ", "\"", "B", "\"", ",", " ", "s", "e", "r", "i", "e", "s", "1", ":", " ", "2", "5", ",", " ", "s", "e", "r", "i", "e", "s", "2", ":", " ", "2", "0", ",", " ", "s", "e", "r", "i", "e", "s", "3", ":", " ", "1", "5", "}", ",", "\n", " ", " ", "{", "c", "a", "t", "e", "g", "o", "r", "y", ":", " ", "\"", "C", "\"", ",", " ", "s", "e", "r", "i", "e", "s", "1", ":", " ", "1", "5", ",", " ", "s", "e", "r", "i", "e", "s", "2", ":", " ", "2", "5", ",", " ", "s", "e", "r", "i", "e", "s", "3", ":", " ", "2", "0", "}", ",", "\n", " ", " ", "{", "c", "a", "t", "e", "g", "o", "r", "y", ":", " ", "\"", "D", "\"", ",", " ", "s", "e", "r", "i", "e", "s", "1", ":", " ", "3", "0", ",", " ", "s", "e", "r", "i", "e", "s", "2", ":", " ", "1", "0", ",", " ", "s", "e", "r", "i", "e", "s", "3", ":", " ", "2", "5", "}", "\n", "]", ";", "\n", "c", "o", "n", "s", "t", " ", "i", "n", "n", "e", "r", "W", "i", "d", "t", "h", " ", "=", " ", "w", "i", "d", "t", "h", " ", "-", " ", "m", "a", "r", "g", "i", "n", ".", "l", "e", "f", "t", " ", "-", " ", "m", "a", "r", "g", "i", "n", ".", "r", "i", "g", "h", "t", ";", "\n", "c", "o", "n", "s", "t", " ", "i", "n", "n", "e", "r", "H", "e", "i", "g", "h", "t", " ", "=", " ", "h", "e", "i", "g", "h", "t", " ", "-", " ", "m", "a", "r", "g", "i", "n", ".", "t", "o", "p", " ", "-", " ", "m", "a", "r", "g", "i", "n", ".", "b", "o", "t", "t", "o", "m", ";", "\n", " ", " ", ".", "a", "t", "t", "r", "(", "\"", "w", "i", "d", "t", "h", "\"", ",", " ", "w", "i", "d", "t", "h", ")", "\n", " ", " ", ".", "a", "t", "t", "r", "(", "\"", "h", "e", "i", "g", "h", "t", "\"", ",", " ", "h", "e", "i", "g", "h", "t", ")", ";", "\n", "c", "o", "n", "s", "t", " ", "s", "t", "a", "c", "k", " ", "=", " ", "d", "3", ".", "s", "t", "a", "c", "k", "(", ")", "\n", "c", "o", "n", "s", "t", " ", "s", "t", "a", "c", "k", "e", "d", "D", "a", "t", "a", " ", "=", " ", "s", "t", "a", "c", "k", "(", "d", "a", "t", "a", ")", ";", "\n", "c", "o", "n", "s", "t", " ", "x", " ", "=", " ", "d", "3", ".", "s", "c", "a", "l", "e", "B", "a", "n", "d", "(", ")", "\n", " ", " ", ".", "r", "a", "n", "g", "e", "(", "[", "0", ",", " ", "i", "n", "n", "e", "r", "W", "i", "d", "t", "h", "]", ")", "\n", "c", "o", "n", "s", "t", " ", "y", " ", "=", " ", "d", "3", ".", "s", "c", "a", "l", "e", "L", "i", "n", "e", "a", "r", "(", ")", "\n", " ", " ", ".", "r", "a", "n", "g", "e", "(", "[", "i", "n", "n", "e", "r", "H", "e", "i", "g", "h", "t", ",", " ", "0", "]", ")", ";", "\n", " ", " ", ".", "a", "t", "t", "r", "(", "\"", "f", "i", "l", "l", "\"", ",", " ", "(", "d", ",", " ", "i", ")", " ", "=", ">", " ", "u", "t", "i", "l", "s", ".", "c", "o", "l", "o", "r", "s", "[", "i", "]", ")", "\n", " ", " ", ".", "s", "e", "l", "e", "c", "t", "A", "l", "l", "(", "\"", "r", "e", "c", "t", "\"", ")", "\n", " ", " ", ".", "a", "p", "p", "e", "n", "d", "(", "\"", "r", "e", "c", "t", "\"", ")", "\n", " ", " ", ".", "a", "t", "t", "r", "(", "\"", "x", "\"", ",", " ", "d", " ", "=", ">", " ", "x", "(", "d", ".", "d", "a", "t", "a", ".", "c", "a", "t", "e", "g", "o", "r", "y", ")", ")", "\n", " ", " ", ".", "a", "t", "t", "r", "(", "\"", "h", "e", "i", "g", "h", "t", "\"", ",", " ", "d", " ", "=", ">", " ", "y", "(", "d", "[", "0", "]", ")", " ", "-", " ", "y", "(", "d", "[", "1", "]", ")", ")", "\n", " ", " ", ".", "a", "t", "t", "r", "(", "\"", "w", "i", "d", "t", "h", "\"", ",", " ", "x", ".", "b", "a", "n", "d", "w", "i", "d", "t", "h", "(", ")", ")", ";", "\n", " ", " ", ".", "a", "t", "t", "r", "(", "\"", "t", "r", "a", "n", "s", "f", "o", "r", "m", "\"", ",", " ", Grave, "t", "r", "a", "n", "s", "l", "a", "t", "e", "(", "0", ",", "$", "{", "i", "n", "n", "e", "r", "H", "e", "i", "g", "h", "t", "}", ")", Grave, ")", "\n">>

(***************************************************************************)
(* The texts the editor is opened on                                       *)
(***************************************************************************)

MaxTypeWords == 2
MaxStyleWords == 3
MaxRecords == 2
MaxEditorWords == 1
MaxSheetRows == 1
MaxEdits == 1

SeqsUpTo(S, n) == UNION { [1..k -> S] : k \in 0..n }

\* the pieces ss, each followed by sep
RECURSIVE Joined(_, _)
Joined(ss, sep) ==
    IF ss = <<>> THEN <<>> ELSE Head(ss) \o sep \o Joined(Tail(ss), sep)

\* the pieces ss with sep between them
RECURSIVE Separated(_, _)
Separated(ss, sep) ==
    IF Len(ss) <= 1 THEN Concat(ss) ELSE Head(ss) \o sep \o Separated(Tail(ss), sep)

\* a text is written from a fixture: the family of its pieces, the pieces (indices
\* of words), and for a data text the statement around the records
Fixtures(family, words, n, forms) ==
    { [family |-> family, words |-> ws, form |-> f] :
        ws \in SeqsUpTo(1..Len(words), n), f \in forms }

\* chart code, one word a line
TypeFixtures(n) == Fixtures("type", TypeWords, n, {0})
StyleFixtures(n) == Fixtures("style", StyleWords, n, {0})
DataFixtures(n) == Fixtures("data", RecWords, n, DOMAIN Forms)

TypeText(ws) == Joined([i \in DOMAIN ws |-> TypeWords[ws[i]]], <<"\n">>)

\* style code, the words separated by ", "
StyleText(ws) == Separated([i \in DOMAIN ws |-> StyleWords[ws[i]].txt], <<",", " ">>)

\* a statement with an array literal of the records
DataText(ws, f) ==
    Forms[f].pre \o Separated([i \in DOMAIN ws |-> RecWords[ws[i]].txt], <<",", " ">>)
        \o Forms[f].post

\* a data sheet: the statement  const data = [ records ];  in strict JSON and a
\* style line
SheetText(ws, f) ==
    Forms[1].pre \o Separated([i \in DOMAIN ws |-> SheetRecords[ws[i]].txt], <<",">>)
        \o Forms[1].post \o <<"\n">> \o SheetStyles[f].txt

TextOf(fx) ==
    CASE fx.family = "type" -> TypeText(fx.words)
      [] fx.family = "style" -> StyleText(fx.words)
      [] fx.family = "data" -> DataText(fx.words, fx.form)
      [] fx.family = "sheet" -> SheetText(fx.words, fx.form)
      [] fx.family = "template" -> getTemplates[fx.words[1]]


(***************************************************************************)
(* Code generation (generateFinalCode, generateVisualizationCode)          *)
(***************************************************************************)

\* Number.prototype.toString of an integer (a template literal's ${width}): its
\* digits, after the sign of a negative one
RECURSIVE natToString(_)
natToString(n) ==
    LET digit == <<"0", "1", "2", "3", "4", "5", "6", "7", "8", "9">>[(n % 10) + 1]
    IN  IF n < 0 THEN <<"-">> \o natToString(0 - n)
        ELSE IF n < 10 THEN <<digit>> ELSE natToString(n \div 10) \o <<digit>>

\* Number.prototype.toString of the number m / 10^e, in the range JavaScript
\* writes without an exponent
numberToString(m, e) ==
    LET ds == natToString(IF m < 0 THEN 0 - m ELSE m)
        all == [i \in 1..(e + 1 - Len(ds)) |-> "0"] \o ds
        int == SubSeq(all, 1, Len(all) - e)
        frac == SubSeq(all, Len(all) - e + 1, Len(all))
    IN  (IF m < 0 THEN <<"-">> ELSE <<>>) \o int
            \o (IF e > 0 THEN <<".">> \o frac ELSE <<>>)

\* QuoteJSONString: the string between quotation marks, with the quotation mark,
\* the backslash and the control characters of the model escaped
quote(s) ==
    <<"\"">>
        \o Concat([i \in 1..Len(s) |->
                    CASE s[i] = "\"" -> <<"\\", "\"">>
                      [] s[i] = "\\" -> <<"\\", "\\">>
                      [] s[i] = "\n" -> <<"\\", "n">>
                      [] s[i] = "\t" -> <<"\\", "t">>
                      [] OTHER -> <<s[i]>>])
        \o <<"\"">>

\* JSON.stringify(v), without indentation: NaN is written null, the members of an
\* object in insertion order
RECURSIVE JSONstringify(_)
JSONstringify(v) ==
    CASE v.t = "string" -> quote(v.s)
      [] v.t = "number" -> numberToString(v.m, v.e)
      [] v.t \in {"NaN", "null"} -> lit.null
      [] v.t = "true" -> lit.true
      [] v.t = "false" -> lit.false
      [] v.t = "array" ->
            <<"[">> \o Separated([i \in DOMAIN v.a |-> JSONstringify(v.a[i])], <<",">>)
                \o <<"]">>
      [] v.t = "object" ->
            <<"{">> \o Separated([i \in DOMAIN v.a |->
                                    quote(v.a[i][1]) \o <<":">> \o JSONstringify(v.a[i][2])],
                                 <<",">>)
                \o <<"}">>

\* GetSubstitution, from position i of the replacement string on, for a pattern
\* without capture groups: $$ is a dollar sign, $& the text matched, $ with a
\* grave accent the text before the match, $' the text after it; any other
\* character, a $ before a digit too, stands for itself
RECURSIVE GetSubstitution(_, _, _, _, _)
GetSubstitution(replacement, i, matched, before, after) ==
    LET marks == {p \in i..(Len(replacement) - 1) :
                    /\ replacement[p] = "$"
                    /\ replacement[p + 1] \in {"$", "&", Grave, "'"}}
        p == Min(marks)
    IN  IF marks = {} THEN SubSeq(replacement, i, Len(replacement))
        ELSE SubSeq(replacement, i, p - 1)
                \o (CASE replacement[p + 1] = "$" -> <<"$">>
                       [] replacement[p + 1] = "&" -> matched
                       [] replacement[p + 1] = Grave -> before
                       [] replacement[p + 1] = "'" -> after)
                \o GetSubstitution(replacement, p + 2, matched, before, after)

\* s.replace(pattern, replacement) for a pattern without flag g, with m the
\* pattern's match in s: whether there is one, its first and its last position
replaceMatch(s, m, replacement) ==
    IF m.ok
    THEN SubSeq(s, 1, m.from - 1)
            \o GetSubstitution(replacement, 1, SubSeq(s, m.from, m.to),
                               SubSeq(s, 1, m.from - 1), SubSeq(s, m.to + 1, Len(s)))
            \o SubSeq(s, m.to + 1, Len(s))
    ELSE s

\* the literal words of the generators' patterns and replacements
gen ==
    [ constDataOpen |-> <<"c", "o", "n", "s", "t", " ", "d", "a", "t", "a", " ", "=", " ", "[">>,
      constData |-> <<"c", "o", "n", "s", "t", " ", "d", "a", "t", "a", " ", "=", " ">>,
      name |-> <<"n", "a", "m", "e">>,
      widthIs |-> <<"w", "i", "d", "t", "h", " ", "=", " ">>,
      heightIs |-> <<"h", "e", "i", "g", "h", "t", " ", "=", " ">>,
      colors0 |-> <<"u", "t", "i", "l", "s", ".", "c", "o", "l", "o", "r", "s", "[", "0", "]">>,
      styleFill |-> <<".", "s", "t", "y", "l", "e", "(", "\"", "f", "i", "l", "l", "\"", ",">>,
      steelblueArg |-> <<"\"", "s", "t", "e", "e", "l", "b", "l", "u", "e", "\"", ")">>,
      styleFillTo |-> <<".", "s", "t", "y", "l", "e", "(", "\"", "f", "i", "l", "l", "\"", ",", " ", "\"">>,
      endArg |-> <<"\"", ")">> ]

\* the leftmost match of /const data = \[\s*\{[^}]*name[^}]*\}[\s\S]*?\];/ ; tail(a)
\* is the last position of a match of \s*\{[^}]*name[^}]*\}[\s\S]*?\]; from position
\* a (the lazy part ends at the first "];"), or 0
dataStatementMatch(s) ==
    LET tail(a) ==
            LET o == Skip(s, a, WhiteSpace)
                c == Find(s, o + 1, {"}"})
                ends == {e \in (c + 1)..(Len(s) - 1) : s[e] = "]" /\ s[e + 1] = ";"}
            IN  IF /\ o <= Len(s) /\ s[o] = "{"
                   /\ c <= Len(s)
                   /\ includes(SubSeq(s, o + 1, c - 1), gen.name)
                   /\ ends # {}
                THEN Min(ends) + 1
                ELSE 0
        hits == {i \in Occurrences(s, gen.constDataOpen) :
                    tail(i + Len(gen.constDataOpen)) > 0}
    IN  IF hits = {} THEN [ok |-> FALSE, from |-> 0, to |-> 0]
        ELSE [ok |-> TRUE, from |-> Min(hits),
              to |-> tail(Min(hits) + Len(gen.constDataOpen))]

\* a callback that answers a width with the height and a height with the width
dimensionReplacerSwapped(match, width, height) ==
    IF includes(match, lit.width) THEN gen.widthIs \o natToString(height)
    ELSE IF includes(match, lit.height) THEN gen.heightIs \o natToString(width)
    ELSE match

\* the callback of the dimension replacement (lines 4578-4582)
dimensionReplacer(match, width, height) ==
    IF includes(match, lit.width) THEN gen.widthIs \o natToString(width)
    ELSE IF includes(match, lit.height) THEN gen.heightIs \o natToString(height)
    ELSE match

\* s.replace(/(?:width|height)\s*=\s*\d+/g, callback) from position i on: the
\* matches from left to right, each search going on after the match before;
\* assignment(a) is the position after a match of \s*=\s*\d+ from position a, or 0
RECURSIVE replaceDimensions(_, _, _, _)
replaceDimensions(s, i, width, height) ==
    LET assignment(a) ==
            LET b == Skip(s, a, WhiteSpace)
                c == Skip(s, b + 1, WhiteSpace)
                d == Skip(s, c, Digits)
            IN  IF b <= Len(s) /\ s[b] = "=" /\ d > c THEN d ELSE 0
        starts == UNION { {<<p, Len(w)>> : p \in Occurrences(s, w)} :
                            w \in {lit.width, lit.height} }
        hits == {p \in starts : p[1] >= i /\ assignment(p[1] + p[2]) > 0}
        first == CHOOSE p \in hits : \A q \in hits : p[1] <= q[1]
        end == assignment(first[1] + first[2])
    IN  IF hits = {} THEN SubSeq(s, i, Len(s))
        ELSE SubSeq(s, i, first[1] - 1)
                \o dimensionReplacer(SubSeq(s, first[1], end - 1), width, height)
                \o replaceDimensions(s, end, width, height)

\* s.replace(/utils\.colors\[0\]/g, replacement) from position i on
RECURSIVE replaceColors0(_, _, _)
replaceColors0(s, i, replacement) ==
    LET hits == {p \in Occurrences(s, gen.colors0) : p >= i}
        first == Min(hits)
        end == first + Len(gen.colors0)
    IN  IF hits = {} THEN SubSeq(s, i, Len(s))
        ELSE SubSeq(s, i, first - 1)
                \o GetSubstitution(replacement, 1, SubSeq(s, first, end - 1),
                                   SubSeq(s, 1, first - 1), SubSeq(s, end, Len(s)))
                \o replaceColors0(s, end, replacement)

\* s.replace(/\.style\("fill",\s*"steelblue"\)/g, replacement) from position i
\* on; argument(a) is the position after a match of \s*"steelblue"\) from
\* position a, or 0
RECURSIVE replaceSteelblueFill(_, _, _)
replaceSteelblueFill(s, i, replacement) ==
    LET argument(a) ==
            LET b == Skip(s, a, WhiteSpace)
            IN  IF MatchAt(s, gen.steelblueArg, b) THEN b + Len(gen.steelblueArg) ELSE 0
        hits == {p \in Occurrences(s, gen.styleFill) :
                    p >= i /\ argument(p + Len(gen.styleFill)) > 0}
        first == Min(hits)
        end == argument(first + Len(gen.styleFill))
    IN  IF hits = {} THEN SubSeq(s, i, Len(s))
        ELSE SubSeq(s, i, first - 1)
                \o GetSubstitution(replacement, 1, SubSeq(s, first, end - 1),
                                   SubSeq(s, 1, first - 1), SubSeq(s, end, Len(s)))
                \o replaceSteelblueFill(s, end, replacement)

\* lines 4568 and 4569
templateOnlyTypes ==
    {"histogram", "heatmap", "timeline", "radar", "box-plot", "bubble-chart",
     "stacked-bar-chart"}
simpleDataTypes == {"bar-chart", "horizontal-bar", "pie-chart", "donut-chart"}

\* lines 4571-4575: the data statement of the template replaced, with dataString
\* the descriptor's data as JSON.stringify writes it
withData(templateCode, type, data, dataString) ==
    IF type \notin templateOnlyTypes /\ Len(data) > 0 /\ type \in simpleDataTypes
    THEN replaceMatch(templateCode, dataStatementMatch(templateCode),
                      gen.constData \o dataString \o <<";">>)
    ELSE templateCode

\* a color of any name goes in for the references to the default color
withColorOfAnyName(templateCode, color) ==
    replaceSteelblueFill(
        replaceColors0(templateCode, 1, <<"\"">> \o color \o <<"\"">>),
        1, gen.styleFillTo \o color \o gen.endArg)

\* lines 4584-4588: a hex color goes in for the references to the default color
withColor(templateCode, color) ==
    IF color # <<>> /\ color[1] = "#"
    THEN replaceSteelblueFill(
            replaceColors0(templateCode, 1, <<"\"">> \o color \o <<"\"">>),
            1, gen.styleFillTo \o color \o gen.endArg)
    ELSE templateCode

\* lines 4563-4590: the template of the kind after the replacement of the data
\* statement, of the dimensions (4577-4582) and of the color
fromTemplate(templateCode, type, data, dataString, width, height, color) ==
    withColor(replaceDimensions(withData(templateCode, type, data, dataString),
                                1, width, height),
              color)

\* lines 4593-4813: the generators written by hand for five kinds, used when no
\* template is stored for the kind; of each text the model keeps the lines that
\* interpolate the data, the width, the height or the color, each followed by
\* its line break; any other kind gets the placeholder
notImplemented ==
    <<"/", "/", " ", "C", "h", "a", "r", "t", " ", "t", "y", "p", "e", " ", "n", "o", "t", " ", "i", "m", "p", "l", "e", "m", "e", "n", "t", "e", "d", " ", "y", "e", "t">>

customGeneration(type, data, width, height, color) ==
    CASE type = "bar-chart" ->   \* lines 4598, 4599, 4601, 4605, 4606, 4628
            Concat(<< <<"c", "o", "n", "s", "t", " ", "i", "n", "n", "e", "r", "W", "i", "d", "t", "h", " ", "=", " ">>,
                      width,
                      <<" ", "-", " ", "m", "a", "r", "g", "i", "n", ".", "l", "e", "f", "t", " ", "-", " ", "m", "a", "r", "g", "i", "n", ".", "r", "i", "g", "h", "t", ";", "\n">>,
                      <<"c", "o", "n", "s", "t", " ", "i", "n", "n", "e", "r", "H", "e", "i", "g", "h", "t", " ", "=", " ">>,
                      height,
                      <<" ", "-", " ", "m", "a", "r", "g", "i", "n", ".", "t", "o", "p", " ", "-", " ", "m", "a", "r", "g", "i", "n", ".", "b", "o", "t", "t", "o", "m", ";", "\n">>,
                      <<"c", "o", "n", "s", "t", " ", "d", "a", "t", "a", " ", "=", " ">>,
                      data,
                      <<";", "\n">>,
                      <<" ", " ", ".", "a", "t", "t", "r", "(", "'", "w", "i", "d", "t", "h", "'", ",", " ">>,
                      width,
                      <<")", "\n">>,
                      <<" ", " ", ".", "a", "t", "t", "r", "(", "'", "h", "e", "i", "g", "h", "t", "'", ",", " ">>,
                      height,
                      <<")", ";", "\n">>,
                      <<" ", " ", ".", "a", "t", "t", "r", "(", "'", "f", "i", "l", "l", "'", ",", " ", "'">>,
                      color,
                      <<"'", ")", ";", "\n">> >>)
      [] type = "line-chart" ->   \* lines 4642, 4643, 4645, 4649, 4650, 4671, 4682
            Concat(<< <<"c", "o", "n", "s", "t", " ", "i", "n", "n", "e", "r", "W", "i", "d", "t", "h", " ", "=", " ">>,
                      width,
                      <<" ", "-", " ", "m", "a", "r", "g", "i", "n", ".", "l", "e", "f", "t", " ", "-", " ", "m", "a", "r", "g", "i", "n", ".", "r", "i", "g", "h", "t", ";", "\n">>,
                      <<"c", "o", "n", "s", "t", " ", "i", "n", "n", "e", "r", "H", "e", "i", "g", "h", "t", " ", "=", " ">>,
                      height,
                      <<" ", "-", " ", "m", "a", "r", "g", "i", "n", ".", "t", "o", "p", " ", "-", " ", "m", "a", "r", "g", "i", "n", ".", "b", "o", "t", "t", "o", "m", ";", "\n">>,
                      <<"c", "o", "n", "s", "t", " ", "d", "a", "t", "a", " ", "=", " ">>,
                      data,
                      <<";", "\n">>,
                      <<" ", " ", ".", "a", "t", "t", "r", "(", "'", "w", "i", "d", "t", "h", "'", ",", " ">>,
                      width,
                      <<")", "\n">>,
                      <<" ", " ", ".", "a", "t", "t", "r", "(", "'", "h", "e", "i", "g", "h", "t", "'", ",", " ">>,
                      height,
                      <<")", ";", "\n">>,
                      <<" ", " ", ".", "a", "t", "t", "r", "(", "'", "s", "t", "r", "o", "k", "e", "'", ",", " ", "'">>,
                      color,
                      <<"'", ")", "\n">>,
                      <<" ", " ", ".", "a", "t", "t", "r", "(", "'", "f", "i", "l", "l", "'", ",", " ", "'">>,
                      color,
                      <<"'", ")", ";", "\n">> >>)
      [] type = "pie-chart" ->   \* lines 4693, 4694, 4698, 4699, 4702
            Concat(<< <<"c", "o", "n", "s", "t", " ", "r", "a", "d", "i", "u", "s", " ", "=", " ", "M", "a", "t", "h", ".", "m", "i", "n", "(">>,
                      width,
                      <<",", " ">>,
                      height,
                      <<")", " ", "/", " ", "2", " ", "-", " ", "2", "0", ";", "\n">>,
                      <<"c", "o", "n", "s", "t", " ", "d", "a", "t", "a", " ", "=", " ">>,
                      data,
                      <<";", "\n">>,
                      <<" ", " ", ".", "a", "t", "t", "r", "(", "'", "w", "i", "d", "t", "h", "'", ",", " ">>,
                      width,
                      <<")", "\n">>,
                      <<" ", " ", ".", "a", "t", "t", "r", "(", "'", "h", "e", "i", "g", "h", "t", "'", ",", " ">>,
                      height,
                      <<")", ";", "\n">>,
                      <<" ", " ", ".", "a", "t", "t", "r", "(", "'", "t", "r", "a", "n", "s", "f", "o", "r", "m", "'", ",", " ", Grave, "t", "r", "a", "n", "s", "l", "a", "t", "e", "(", "$", "{">>,
                      width,
                      <<"/", "2", "}", ",", "$", "{">>,
                      height,
                      <<"/", "2", "}", ")", Grave, ")", ";", "\n">> >>)
      [] type = "scatter-plot" ->   \* lines 4730, 4731, 4733, 4737, 4738, 4758
            Concat(<< <<"c", "o", "n", "s", "t", " ", "i", "n", "n", "e", "r", "W", "i", "d", "t", "h", " ", "=", " ">>,
                      width,
                      <<" ", "-", " ", "m", "a", "r", "g", "i", "n", ".", "l", "e", "f", "t", " ", "-", " ", "m", "a", "r", "g", "i", "n", ".", "r", "i", "g", "h", "t", ";", "\n">>,
                      <<"c", "o", "n", "s", "t", " ", "i", "n", "n", "e", "r", "H", "e", "i", "g", "h", "t", " ", "=", " ">>,
                      height,
                      <<" ", "-", " ", "m", "a", "r", "g", "i", "n", ".", "t", "o", "p", " ", "-", " ", "m", "a", "r", "g", "i", "n", ".", "b", "o", "t", "t", "o", "m", ";", "\n">>,
                      <<"c", "o", "n", "s", "t", " ", "d", "a", "t", "a", " ", "=", " ">>,
                      data,
                      <<";", "\n">>,
                      <<" ", " ", ".", "a", "t", "t", "r", "(", "'", "w", "i", "d", "t", "h", "'", ",", " ">>,
                      width,
                      <<")", "\n">>,
                      <<" ", " ", ".", "a", "t", "t", "r", "(", "'", "h", "e", "i", "g", "h", "t", "'", ",", " ">>,
                      height,
                      <<")", ";", "\n">>,
                      <<" ", " ", ".", "a", "t", "t", "r", "(", "'", "f", "i", "l", "l", "'", ",", " ", "'">>,
                      color,
                      <<"'", ")", "\n">> >>)
      [] type = "area-chart" ->   \* lines 4771, 4772, 4774, 4778, 4779, 4800
            Concat(<< <<"c", "o", "n", "s", "t", " ", "i", "n", "n", "e", "r", "W", "i", "d", "t", "h", " ", "=", " ">>,
                      width,
                      <<" ", "-", " ", "m", "a", "r", "g", "i", "n", ".", "l", "e", "f", "t", " ", "-", " ", "m", "a", "r", "g", "i", "n", ".", "r", "i", "g", "h", "t", ";", "\n">>,
                      <<"c", "o", "n", "s", "t", " ", "i", "n", "n", "e", "r", "H", "e", "i", "g", "h", "t", " ", "=", " ">>,
                      height,
                      <<" ", "-", " ", "m", "a", "r", "g", "i", "n", ".", "t", "o", "p", " ", "-", " ", "m", "a", "r", "g", "i", "n", ".", "b", "o", "t", "t", "o", "m", ";", "\n">>,
                      <<"c", "o", "n", "s", "t", " ", "d", "a", "t", "a", " ", "=", " ">>,
                      data,
                      <<";", "\n">>,
                      <<" ", " ", ".", "a", "t", "t", "r", "(", "'", "w", "i", "d", "t", "h", "'", ",", " ">>,
                      width,
                      <<")", "\n">>,
                      <<" ", " ", ".", "a", "t", "t", "r", "(", "'", "h", "e", "i", "g", "h", "t", "'", ",", " ">>,
                      height,
                      <<")", ";", "\n">>,
                      <<" ", " ", ".", "a", "t", "t", "r", "(", "'", "f", "i", "l", "l", "'", ",", " ", "'">>,
                      color,
                      <<"'", ")", "\n">> >>)
      [] OTHER -> notImplemented

\* the generation that never looks at the templates
generatedWithoutTemplates(templates, type, data, width, height, color) ==
    customGeneration(type, JSONstringify(JArr(data)),
                     natToString(width), natToString(height), color)

\* lines 4561-4813 (and 4299-4551): the template of the kind with the
\* replacements when the templates hold one, else the custom generation
generated(templates, type, data, width, height, color) ==
    IF type \in DOMAIN templates
    THEN fromTemplate(templates[type], type, data, JSONstringify(JArr(data)),
                      width, height, color)
    ELSE customGeneration(type, JSONstringify(JArr(data)),
                          natToString(width), natToString(height), color)

\* lines 4554-4814: the final code, with the dimensions of the descriptor
\* (n || d is d when n is 0, s || d is d when s is empty)
generateFinalCode(type, descriptor) ==
    generated(getTemplates, type, descriptor.data,
              IF descriptor.width = 0 THEN 600 ELSE descriptor.width,
              IF descriptor.height = 0 THEN 400 ELSE descriptor.height,
              IF descriptor.color = <<>> THEN steelblue ELSE descriptor.color)

\* lines 4292-4552: the code of the preview, the same with the dimensions
\* Math.min(width || 400, 350) and Math.min(height || 300, 280)
generateVisualizationCode(type, descriptor) ==
    LET w == IF descriptor.width = 0 THEN 400 ELSE descriptor.width
        h == IF descriptor.height = 0 THEN 300 ELSE descriptor.height
    IN  generated(getTemplates, type, descriptor.data,
                  IF w <= 350 THEN w ELSE 350, IF h <= 280 THEN h ELSE 280,
                  IF descriptor.color = <<>> THEN steelblue ELSE descriptor.color)
(***************************************************************************)
(* The editor (class D3GraphicalEditor)                                    *)
(***************************************************************************)

\* this.parsedData before onOpen assigns it
Undefined == [undefined |-> TRUE]

\* the paths the code of a block names
Paths == {"data/sales.json"}

\* the plugin at rest: the default settings (lines 28-33), nothing rendered
PluginLoaded ==
    /\ settings = [defaultWidth |-> 600, defaultHeight |-> 400,
                   enableErrorDisplay |-> TRUE, allowDataLoading |-> TRUE]
    /\ saved = Undefined
    /\ vault = [path \in Paths |-> "absent"]
    /\ container = <<>>
    /\ running = Undefined
    /\ promise = Undefined
    /\ browser = Undefined
    /\ note = <<>>
    /\ codeEditor = Undefined

\* the edit button of a block clicked for the first time (lines 116-118, 244):
\* the container hidden, new D3GraphicalEditor(app, plugin, source, ctx) on the
\* text of fixture fx
Constructed(fx) ==
    /\ fixture = fx
    /\ source = TextOf(fx)
    /\ phase = "constructed"
    /\ parsedData = Undefined
    /\ currentVisualizationType = "bar-chart"
    /\ escaped = FALSE
    /\ clipboard = <<>>
    /\ activeView = TRUE
    /\ session = [fresh |-> Undefined, edits |-> 0, earlier |-> {}]
    /\ hidden = TRUE
    /\ PluginLoaded

\* line 3664 with r the outcome of the call: the assignment, or the exception
\* that leaves onOpen before it
Assigned(r) ==
    IF r.threw
    THEN /\ escaped' = TRUE
         /\ UNCHANGED <<parsedData, currentVisualizationType>>
    ELSE /\ parsedData' = [data |-> r.val.data, width |-> r.val.width,
                           height |-> r.val.height, color |-> r.val.color]
         /\ currentVisualizationType' = r.val.type
         /\ escaped' = FALSE

\* onOpen: this.parsedData = this.parseVisualizationData(); session.fresh keeps
\* the descriptor of the first session on the block
OnOpen ==
    /\ phase = "constructed"
    /\ Assigned(parseVisualizationData(source, currentVisualizationType))
    /\ phase' = "open"
    /\ session' = [session EXCEPT !.fresh = IF @ = Undefined THEN parsedData' ELSE @]
    /\ UNCHANGED <<source, fixture, clipboard, activeView, hidden, pluginVars,
                   modalVars>>

\* the kinds updateDataControls builds the table of labels and values for
\* (lines 3801-3809)
dataControlTypes == {"bar-chart", "line-chart", "scatter-plot", "pie-chart"}

\* the table of labels and values is filled with the sample data whatever the
\* data are
TypeSelectChangeWithSamples(t) ==
    /\ phase = "open"
    /\ ~escaped
    /\ currentVisualizationType' = t
    /\ parsedData' = IF t \in dataControlTypes
                     THEN [parsedData EXCEPT !.data = sampleData]
                     ELSE parsedData
    /\ UNCHANGED <<source, fixture, phase, escaped, clipboard, activeView, session,
                   hidden, pluginVars, modalVars>>

\* lines 3776-3780, the change listener of the type selector (it exists once
\* onOpen has built the controls): the kind selected, then updateDataControls,
\* whose table of labels and values (built for four kinds, lines 3801-3809, by
\* createBarChartDataControls) puts the sample data in the place of empty data
\* (3833-3840); refreshPreview changes nothing of the editor's fields
TypeSelectChange(t) ==
    /\ phase = "open"
    /\ ~escaped
    /\ currentVisualizationType' = t
    /\ parsedData' = IF t \in dataControlTypes /\ Len(parsedData.data) = 0
                     THEN [parsedData EXCEPT !.data = sampleData]
                     ELSE parsedData
    /\ UNCHANGED <<source, fixture, phase, escaped, clipboard, activeView, session,
                   hidden, pluginVars, modalVars>>

\* an edit handler has changed the descriptor to d (its refreshPreview changes
\* nothing of the editor's fields); the edits of a session are counted
Edited(d) ==
    /\ session.edits < MaxEdits
    /\ parsedData' = d
    /\ session' = [session EXCEPT !.edits = @ + 1]
    /\ UNCHANGED <<source, fixture, phase, currentVisualizationType, escaped,
                   clipboard, activeView, hidden, pluginVars, modalVars>>

\* lines 3853-3856: the input listener of the label field of row index, which
\* the table has for a record of the data
LabelInput(index, text) ==
    /\ phase = "open"
    /\ ~escaped
    /\ currentVisualizationType \in dataControlTypes
    /\ index \in DOMAIN parsedData.data
    /\ parsedData.data[index].t = "object"
    /\ Edited([parsedData EXCEPT
                !.data[index] = JObj(setKey(@.a, lit.label, JStr(text)))])

\* lines 3866-3869: the input listener of the value field of row index;
\* parseFloat(text) || 0 is 0 for NaN
ValueInput(index, text) ==
    LET v == parseFloat(text)
    IN  /\ phase = "open"
        /\ ~escaped
        /\ currentVisualizationType \in dataControlTypes
        /\ index \in DOMAIN parsedData.data
        /\ parsedData.data[index].t = "object"
        /\ Edited([parsedData EXCEPT
                    !.data[index] =
                        JObj(setKey(@.a, lit.value,
                                    IF v.t = "NaN" THEN JNum(0, 0) ELSE v))])

\* lines 3879-3883: the Add Row button
AddRow ==
    /\ phase = "open"
    /\ ~escaped
    /\ currentVisualizationType \in dataControlTypes
    /\ Edited([parsedData EXCEPT !.data = Append(@, Record(<<"N", "e", "w">>, 0))])

\* lines 3921-3924: the input listener of the width field, with the text of the
\* field (of type number: the text of a number, or empty); parseInt of a text
\* without a digit is NaN, and NaN || 600 is 600 as 0 || 600 is
WidthInput(text) ==
    /\ phase = "open"
    /\ ~escaped
    /\ Edited([parsedData EXCEPT
                !.width = IF parseIntOf(text).nan \/ parseIntOf(text).n = 0
                          THEN 600 ELSE parseIntOf(text).n])

\* lines 3939-3942: the input listener of the height field
HeightInput(text) ==
    /\ phase = "open"
    /\ ~escaped
    /\ Edited([parsedData EXCEPT
                !.height = IF parseIntOf(text).nan \/ parseIntOf(text).n = 0
                           THEN 400 ELSE parseIntOf(text).n])

\* the modal closes with the onClose of the editor's class alone
CloseWithoutCallback ==
    /\ phase = "open"
    /\ phase' = "closed"
    /\ session' = [session EXCEPT
                    !.earlier = IF session.edits > 0 THEN @ \cup {"cancelled"} ELSE @]
    /\ UNCHANGED <<source, fixture, parsedData, currentVisualizationType, escaped,
                   clipboard, activeView, hidden, pluginVars, modalVars>>

\* the Cancel button (lines 3725-3727), or the modal closed otherwise: close()
\* calls the onClose that openGraphicalEditor has put in the place of the
\* editor's (lines 246-250), which shows the container again (line 120). A
\* session with edits is remembered as cancelled
Close ==
    /\ phase = "open"
    /\ phase' = "closed"
    /\ hidden' = FALSE
    /\ session' = [session EXCEPT
                    !.earlier = IF session.edits > 0 THEN @ \cup {"cancelled"} ELSE @]
    /\ UNCHANGED <<source, fixture, parsedData, currentVisualizationType, escaped,
                   clipboard, activeView, pluginVars, modalVars>>

\* the generated code replaces the block's source
ApplyChangesInPlace ==
    /\ phase = "open"
    /\ ~escaped
    /\ source' = generateFinalCode(currentVisualizationType, parsedData)
    /\ clipboard' = IF activeView THEN source' ELSE clipboard
    /\ phase' = "closed"
    /\ hidden' = FALSE
    /\ session' = [session EXCEPT
                    !.earlier = IF session.edits > 0 THEN @ \cup {"applied"} ELSE @]
    /\ UNCHANGED <<fixture, parsedData, currentVisualizationType, escaped,
                   activeView, pluginVars, modalVars>>

\* the generated code is copied whether a view is active or not
ApplyChangesAlwaysCopying ==
    /\ phase = "open"
    /\ ~escaped
    /\ clipboard' = generateFinalCode(currentVisualizationType, parsedData)
    /\ phase' = "closed"
    /\ hidden' = FALSE
    /\ session' = [session EXCEPT
                    !.earlier = IF session.edits > 0 THEN @ \cup {"applied"} ELSE @]
    /\ UNCHANGED <<source, fixture, parsedData, currentVisualizationType, escaped,
                   activeView, pluginVars, modalVars>>

\* lines 4816-4832, the Apply Changes button: generateFinalCode; with an active
\* view the code is written to the clipboard (the write is asynchronous and may
\* fail); then this.close(), which shows the container again. A session with
\* edits is remembered as applied.
ApplyChanges ==
    /\ phase = "open"
    /\ ~escaped
    /\ \E written \in BOOLEAN :
            clipboard' = IF activeView /\ written
                         THEN generateFinalCode(currentVisualizationType, parsedData)
                         ELSE clipboard
    /\ phase' = "closed"
    /\ hidden' = FALSE
    /\ session' = [session EXCEPT
                    !.earlier = IF session.edits > 0 THEN @ \cup {"applied"} ELSE @]
    /\ UNCHANGED <<source, fixture, parsedData, currentVisualizationType, escaped,
                   activeView, pluginVars, modalVars>>

\* the edit button of the block again (lines 116-123): the container is hidden,
\* openGraphicalEditor constructs a new editor on the block's source, with or
\* without an active view
OpenGraphicalEditor ==
    /\ phase = "closed"
    /\ phase' = "constructed"
    /\ hidden' = TRUE
    /\ parsedData' = Undefined
    /\ currentVisualizationType' = "bar-chart"
    /\ activeView' \in BOOLEAN
    /\ session' = [session EXCEPT !.edits = 0]
    /\ UNCHANGED <<source, fixture, escaped, clipboard, pluginVars, modalVars>>

Init ==
    \E fx \in TypeFixtures(MaxEditorWords) \cup StyleFixtures(MaxEditorWords)
                \cup DataFixtures(MaxEditorWords) : Constructed(fx)

Next ==
    \/ OnOpen
    \/ \E t \in chartTypes : TypeSelectChange(t)
    \/ Close
    \/ OpenGraphicalEditor

Spec == Init /\ [][Next]_vars

\* the analysis alone, on each family of texts
InitType == \E fx \in TypeFixtures(MaxTypeWords) : Constructed(fx)
InitStyle == \E fx \in StyleFixtures(MaxStyleWords) : Constructed(fx)
InitData == \E fx \in DataFixtures(MaxRecords) : Constructed(fx)

Analyse == OnOpen

SpecType == InitType /\ [][Analyse]_vars
SpecStyle == InitStyle /\ [][Analyse]_vars
SpecData == InitData /\ [][Analyse]_vars

\* the generation of code: a data sheet analysed, or the stored template of a
\* kind as the template browser inserts it, a kind selected, the changes applied
SpecSynth ==
    /\ \E fx \in Fixtures("sheet", SheetRecords, MaxSheetRows, DOMAIN SheetStyles)
                    \cup {[family |-> "template", words |-> <<k>>, form |-> 0] :
                                k \in chartTypes} :
            Constructed(fx)
    /\ [][\/ OnOpen
          \/ \E t \in chartTypes : TypeSelectChange(t)
          \/ ApplyChanges]_vars

\* the sessions of the editor on a block: the fields edited with the texts a
\* user types, the changes applied or cancelled, the editor opened again
SpecEditor ==
    /\ \E fx \in { [family |-> "data", words |-> <<1>>, form |-> 1],
                    [family |-> "sheet", words |-> <<1>>, form |-> 3] } :
            Constructed(fx)
    /\ [][\/ OnOpen
          \/ \E t \in {"pie-chart", "timeline"} : TypeSelectChange(t)
          \/ \E i \in 1..(MaxEdits + 1) : LabelInput(i, <<"Q">>)
          \/ \E i \in 1..(MaxEdits + 1), text \in {<<"2", ".", "5">>, <<>>} :
                ValueInput(i, text)
          \/ AddRow
          \/ \E text \in {<<"8", "0", "0">>, <<>>, <<"-", "5">>} : WidthInput(text)
          \/ \E text \in {<<"3", "0", "0">>} : HeightInput(text)
          \/ ApplyChanges
          \/ Close
          \/ OpenGraphicalEditor]_vars

(***************************************************************************)
(* The plugin (class D3VisualizerPlugin): a d3 block rendered              *)
(***************************************************************************)

\* the code of a d3 block, by what it does when it runs, in this order: it
\* appends a drawing to the container; it calls loadData[loads](path) and leaves
\* the drawing of the rows to the promise's then; it throws new Error("no data")
Codes ==
    [draws : BOOLEAN, loads : {"none", "csv", "json", "text"}, path : Paths,
     throws : BOOLEAN]

\* the setting is tested after the file has been looked up
loadDataLookingUpFirst(kind, path, allowDataLoading, file) ==
    [kind |-> kind, path |-> path, allowed |-> allowDataLoading, file |-> file]
        @@ (IF file = "absent"
            THEN [calls |-> <<"getAbstractFileByPath">>, state |-> "rejected",
                  reason |-> <<"File not found: ", path>>]
            ELSE IF ~allowDataLoading
            THEN [calls |-> <<"getAbstractFileByPath">>, state |-> "rejected",
                  reason |-> <<"Data loading is disabled in settings">>]
            ELSE [calls |-> <<"getAbstractFileByPath", "read">>, state |-> "pending",
                  reason |-> <<>>])

\* lines 169-204: loadData.csv, loadData.json and loadData.text up to their
\* await, the same in the three: the promise returned, with the setting and the
\* file found at the call, the calls made on the vault, and the state of the
\* promise (an async function that throws returns a rejected promise; the
\* message of its error is kept in its pieces)
loadData(kind, path, allowDataLoading, file) ==
    [kind |-> kind, path |-> path, allowed |-> allowDataLoading, file |-> file]
        @@ (IF ~allowDataLoading
            THEN [calls |-> <<>>, state |-> "rejected",
                  reason |-> <<"Data loading is disabled in settings">>]
            ELSE IF file = "absent"
            THEN [calls |-> <<"getAbstractFileByPath">>, state |-> "rejected",
                  reason |-> <<"File not found: ", path>>]
            ELSE [calls |-> <<"getAbstractFileByPath", "read">>, state |-> "pending",
                  reason |-> <<>>])

\* an element the code draws
drawing == [cls |-> "svg", message |-> <<>>]

\* lines 228-241: displayError(container, error) on the elements the container
\* has; error.toString() puts the name of the error before its message
displayError(elements, message, enableErrorDisplay) ==
    IF ~enableErrorDisplay THEN elements
    ELSE <<[cls |-> "d3-error-display", message |-> <<"Error: ">> \o message]>>

\* lines 137-141: try { this.executeD3Code(source, container) } catch (error)
\* { this.displayError(container, error) }: the elements of the container after
\* it. The promise the code's call of the loader returned is the code's alone.
executeD3Code(code, enableErrorDisplay) ==
    IF code.throws
    THEN displayError(IF code.draws THEN <<drawing>> ELSE <<>>,
                      <<"no data">>, enableErrorDisplay)
    ELSE IF code.draws THEN <<drawing>> ELSE <<>>

\* processD3CodeBlock(source, el, ctx) for a block with the code given
ProcessD3CodeBlock(code) ==
    /\ running = Undefined
    /\ running' = [code |-> code, enableErrorDisplay |-> settings.enableErrorDisplay]
    /\ promise' = IF code.loads = "none" THEN Undefined
                  ELSE loadData(code.loads, code.path, settings.allowDataLoading,
                                vault[code.path])
    /\ container' = executeD3Code(code, settings.enableErrorDisplay)
    /\ UNCHANGED <<editorVars, hidden, modalVars, settings, saved, vault>>

\* the promise of the loader settles: vault.read gives the content, or fails
\* when the file is there no more; JSON.parse rejects a malformed content; the
\* code's then draws the rows. Nothing of the plugin hears of a rejection.
Settle ==
    /\ promise # Undefined
    /\ promise.state = "pending"
    /\ IF vault[promise.path] = "absent"
       THEN /\ promise' = [promise EXCEPT !.state = "rejected",
                                          !.reason = <<"ENOENT: no such file">>]
            /\ UNCHANGED container
       ELSE IF promise.kind = "json" /\ vault[promise.path] = "malformed"
       THEN /\ promise' = [promise EXCEPT !.state = "rejected",
                                          !.reason = <<"Unexpected token">>]
            /\ UNCHANGED container
       ELSE /\ promise' = [promise EXCEPT !.state = "fulfilled"]
            /\ container' = Append(container, drawing)
    /\ UNCHANGED <<editorVars, hidden, modalVars, settings, saved, vault, running>>

\* the note is rendered anew: the block's elements are gone
Rerender ==
    /\ running # Undefined
    /\ running' = Undefined
    /\ container' = <<>>
    /\ promise' = Undefined
    /\ UNCHANGED <<editorVars, hidden, modalVars, settings, saved, vault>>

\* the setting is stored whatever the number read
DefaultSizeChangeUnchecked(setting, value) ==
    /\ ~parseIntOf(value).nan
    /\ settings' = [settings EXCEPT ![setting] = parseIntOf(value).n]
    /\ saved' = settings'
    /\ UNCHANGED <<editorVars, hidden, modalVars, vault, container, running, promise>>

\* lines 4859-4865 and 4873-4879: the onChange of the Default Width or of the
\* Default Height field with the text of the field: the number parseInt reads
\* is stored and the settings are saved when it is not NaN and greater than 0
DefaultSizeChange(setting, value) ==
    /\ IF ~parseIntOf(value).nan /\ parseIntOf(value).n > 0
       THEN /\ settings' = [settings EXCEPT ![setting] = parseIntOf(value).n]
            /\ saved' = settings'
       ELSE UNCHANGED <<settings, saved>>
    /\ UNCHANGED <<editorVars, hidden, modalVars, vault, container, running, promise>>

\* lines 4885-4897: a toggle of the settings tab, which saves the settings
Toggle(setting) ==
    /\ settings' = [settings EXCEPT ![setting] = ~@]
    /\ saved' = settings'
    /\ UNCHANGED <<editorVars, hidden, modalVars, vault, container, running, promise>>

\* a file of the vault is written (JSON.parse accepts its content, or rejects
\* it), or deleted
VaultModify(path, content) ==
    /\ vault[path] # content
    /\ vault' = [vault EXCEPT ![path] = content]
    /\ UNCHANGED <<editorVars, hidden, modalVars, settings, saved, container, running,
                   promise>>

\* the blocks of a note rendered, while the settings and the vault change
SpecPlugin ==
    /\ Constructed([family |-> "type", words |-> <<>>, form |-> 0])
    /\ [][\/ \E code \in Codes : ProcessD3CodeBlock(code)
          \/ Settle
          \/ Rerender
          \/ \E setting \in {"enableErrorDisplay", "allowDataLoading"} : Toggle(setting)
          \/ \E path \in Paths, content \in {"absent", "wellformed", "malformed"} :
                VaultModify(path, content)]_vars

\* the texts typed into the fields of the settings tab
SettingValues ==
    { <<"8", "0", "0">>, <<"1", "2", "p", "x">>, <<"3", ".", "7">>, <<" ", "4", "2">>,
      <<"1", "e", "3">>, <<"-", "5">>, <<"0">>, <<"0", ".", "5">>, <<>>,
      <<"a", "b", "c">> }

\* the settings tab edited
SpecSettings ==
    /\ Constructed([family |-> "type", words |-> <<>>, form |-> 0])
    /\ [][\/ \E setting \in {"defaultWidth", "defaultHeight"}, value \in SettingValues :
                DefaultSizeChange(setting, value)
          \/ \E setting \in {"enableErrorDisplay", "allowDataLoading"} : Toggle(setting)]_vars

\* lines 272-605: getTemplateMetadata(), of whose 39 entries the model keeps four
\* (the icon left out); name, description and tags are text, searched by
\* filterTemplates
getTemplateMetadata ==
    <<
    [key |-> "bar-chart", category |-> "Charts",
     name |-> <<"B", "a", "r", " ", "C", "h", "a", "r", "t">>,
     description |-> <<"V", "e", "r", "t", "i", "c", "a", "l", " ", "b", "a", "r", " ", "c", "h", "a", "r", "t", " ", "w", "i", "t", "h", " ", "a", "x", "e", "s", " ", "a", "n", "d", " ", "l", "a", "b", "e", "l", "s">>,
     tags |-> <<<<"b", "a", "r">>, <<"c", "h", "a", "r", "t">>, <<"c", "a", "t", "e", "g", "o", "r", "i", "c", "a", "l">>, <<"v", "e", "r", "t", "i", "c", "a", "l">>>>],
    [key |-> "pie-chart", category |-> "Circular",
     name |-> <<"P", "i", "e", " ", "C", "h", "a", "r", "t">>,
     description |-> <<"C", "l", "a", "s", "s", "i", "c", " ", "p", "i", "e", " ", "c", "h", "a", "r", "t", " ", "f", "o", "r", " ", "p", "a", "r", "t", "-", "t", "o", "-", "w", "h", "o", "l", "e", " ", "r", "e", "l", "a", "t", "i", "o", "n", "s", "h", "i", "p", "s">>,
     tags |-> <<<<"p", "i", "e">>, <<"c", "i", "r", "c", "u", "l", "a", "r">>, <<"p", "r", "o", "p", "o", "r", "t", "i", "o", "n", "s">>, <<"p", "a", "r", "t", "s">>>>],
    [key |-> "donut-chart", category |-> "Circular",
     name |-> <<"D", "o", "n", "u", "t", " ", "C", "h", "a", "r", "t">>,
     description |-> <<"D", "o", "n", "u", "t", " ", "c", "h", "a", "r", "t", " ", "w", "i", "t", "h", " ", "c", "e", "n", "t", "e", "r", " ", "t", "e", "x", "t", " ", "a", "r", "e", "a">>,
     tags |-> <<<<"d", "o", "n", "u", "t">>, <<"c", "i", "r", "c", "u", "l", "a", "r">>, <<"p", "r", "o", "p", "o", "r", "t", "i", "o", "n", "s">>, <<"c", "e", "n", "t", "e", "r">>>>],
    [key |-> "timeline", category |-> "Temporal",
     name |-> <<"T", "i", "m", "e", "l", "i", "n", "e">>,
     description |-> <<"L", "i", "n", "e", "a", "r", " ", "t", "i", "m", "e", "l", "i", "n", "e", " ", "f", "o", "r", " ", "c", "h", "r", "o", "n", "o", "l", "o", "g", "i", "c", "a", "l", " ", "e", "v", "e", "n", "t", "s">>,
     tags |-> <<<<"t", "i", "m", "e", "l", "i", "n", "e">>, <<"c", "h", "r", "o", "n", "o", "l", "o", "g", "i", "c", "a", "l">>, <<"e", "v", "e", "n", "t", "s">>, <<"t", "i", "m", "e">>>>]
    >>

(***************************************************************************)
(* The template browser (class D3TemplateBrowserModal)                     *)
(***************************************************************************)

\* the blocks the browser may insert into the note of the model
MaxInserts == 2

\* this.selectedTemplate when no template is selected
null == "null"

\* the keys of the cards renderTemplates builds for the templates given
cardsOf(templates) == [i \in DOMAIN templates |-> templates[i].key]

\* lines 3269-3285: the templates filterTemplates has rendered, by the value of
\* the search field and of the category filter
filterTemplates(templates, searchValue, selectedCategory) ==
    LET searchTerm == ToLower(searchValue)
        matchesSearch(t) ==
            \/ searchTerm = <<>>
            \/ includes(ToLower(t.name), searchTerm)
            \/ includes(ToLower(t.description), searchTerm)
            \/ \E i \in DOMAIN t.tags : includes(ToLower(t.tags[i]), searchTerm)
        matchesCategory(t) == selectedCategory = "all" \/ t.category = selectedCategory
    IN  SelectSeq(templates, LAMBDA t : matchesSearch(t) /\ matchesCategory(t))

\* line 3423: the text replaceRange puts at the cursor
fenced(templateCode) ==
    <<Grave, Grave, Grave, "d", "3", "\n">> \o templateCode
        \o <<"\n", Grave, Grave, Grave, "\n">>

\* the template is inserted whether one is selected or not (of no selection the
\* first template is made)
insertSelectedTemplateUnguarded(inserted, selectedTemplate, templates) ==
    LET key == IF selectedTemplate = null THEN "bar-chart" ELSE selectedTemplate
    IN  [note |-> Append(inserted, fenced(templates[key])), closed |-> TRUE]

\* lines 3408-3438: insertSelectedTemplate() with the texts the note has had
\* inserted: the texts after it, and whether the modal has been closed
insertSelectedTemplate(inserted, selectedTemplate, templates) ==
    IF selectedTemplate = null THEN [note |-> inserted, closed |-> FALSE]
    ELSE IF selectedTemplate \notin DOMAIN templates
    THEN [note |-> inserted, closed |-> FALSE]
    ELSE [note |-> Append(inserted, fenced(templates[selectedTemplate])),
          closed |-> TRUE]

\* lines 259-269 and 3193-3265: showTemplateMenu with an editor, the modal
\* constructed and opened: no template selected, the Insert button disabled, a
\* card for every template
ShowTemplateMenu ==
    /\ ~(browser # Undefined /\ browser.open)
    /\ Len(note) < MaxInserts
    /\ browser' = [open |-> TRUE, selectedTemplate |-> null, disabled |-> TRUE,
                   currentView |-> "templates", searchValue |-> <<>>,
                   category |-> "all", cards |-> cardsOf(getTemplateMetadata),
                   backBtn |-> FALSE]
    /\ UNCHANGED <<editorVars, pluginVars, hidden, note, codeEditor>>

\* lines 3257, 3258: the input listener of the search field or the change
\* listener of the category filter, after the one or the other has changed:
\* filterTemplates renders the cards of the templates that match
FilterTemplates(searchValue, category) ==
    /\ browser # Undefined /\ browser.open
    /\ searchValue = browser.searchValue \/ category = browser.category
    /\ browser' = [browser EXCEPT
                    !.searchValue = searchValue,
                    !.category = category,
                    !.cards = cardsOf(filterTemplates(getTemplateMetadata,
                                                      searchValue, category))]
    /\ UNCHANGED <<editorVars, pluginVars, hidden, note, codeEditor>>

\* lines 3314-3324: the click listener of the card of a template rendered; with
\* showPreviewPage (3334-3345) the Insert button is enabled and the Back button
\* is there
CardClick(key) ==
    /\ browser # Undefined /\ browser.open
    /\ \E i \in DOMAIN browser.cards : browser.cards[i] = key
    /\ browser' = [browser EXCEPT !.selectedTemplate = key,
                                  !.currentView = "preview",
                                  !.disabled = FALSE,
                                  !.backBtn = TRUE]
    /\ UNCHANGED <<editorVars, pluginVars, hidden, note, codeEditor>>

\* the template selected is inserted: the note and the modal after
\* insertSelectedTemplate
Inserting(selectedTemplate) ==
    LET r == insertSelectedTemplate(note, selectedTemplate, getTemplates)
    IN  /\ note' = r.note
        /\ browser' = [browser EXCEPT !.selectedTemplate = selectedTemplate,
                                      !.open = ~r.closed]
        /\ UNCHANGED <<editorVars, pluginVars, hidden, codeEditor>>

\* lines 3327-3330: the dblclick listener of a card
CardDblClick(key) ==
    /\ browser # Undefined /\ browser.open
    /\ \E i \in DOMAIN browser.cards : browser.cards[i] = key
    /\ Inserting(key)

\* lines 3354 and 3395-3406: the Back button of the preview page;
\* showTemplatesPage disables the Insert button when no template is selected
BackClick ==
    /\ browser # Undefined /\ browser.open
    /\ browser.backBtn
    /\ browser' = [browser EXCEPT !.currentView = "templates",
                                  !.disabled = (browser.selectedTemplate = null)]
    /\ UNCHANGED <<editorVars, pluginVars, hidden, note, codeEditor>>

\* line 3259: the click listener of the Insert button. A disabled button hears
\* no click of the user's; the listener is run for the requests made of it
\* whatever the button shows, as its own test of the selection allows
InsertClick ==
    /\ browser # Undefined /\ browser.open
    /\ Inserting(browser.selectedTemplate)

\* line 3260: the Cancel button (Close on the preview page), or the modal
\* closed otherwise
CancelClick ==
    /\ browser # Undefined /\ browser.open
    /\ browser' = [browser EXCEPT !.open = FALSE]
    /\ UNCHANGED <<editorVars, pluginVars, hidden, note, codeEditor>>

\* the values typed into the search field, and the categories of the filter
\* (lines 3227-3234: all, and those of the templates)
SearchValues == {<<>>, <<"P", "i", "e">>, <<"c", "i", "r", "c">>, <<"z", "z">>}
Categories == {"all"} \cup {getTemplateMetadata[i].category : i \in DOMAIN getTemplateMetadata}

\* the template browser opened on a note, time and again
SpecBrowser ==
    /\ Constructed([family |-> "type", words |-> <<>>, form |-> 0])
    /\ [][\/ ShowTemplateMenu
          \/ \E v \in SearchValues, c \in Categories : FilterTemplates(v, c)
          \/ \E k \in DOMAIN getTemplates : CardClick(k)
          \/ \E k \in DOMAIN getTemplates : CardDblClick(k)
          \/ BackClick
          \/ InsertClick
          \/ CancelClick]_vars

(***************************************************************************)
(* The code editor (class D3CodeEditor)                                    *)
(***************************************************************************)

\* the input events of the model, and the delay of the refresh in tenths of a
\* second (line 3543: 500 ms)
MaxInputs == 3
Debounce == 5

\* lines 255-257 and 3460-3535: showCodeViewer, the modal constructed and
\* opened: the text area holds the source (value counts the characters typed
\* onto it), updatePreview has run on it, no timer is set
ShowCodeViewer ==
    /\ codeEditor = Undefined
    /\ codeEditor' = [open |-> TRUE, value |-> 0, inputs |-> 0, updateTimeout |-> 0,
                      timers |-> {}, sinceInput |-> Debounce, preview |-> 0,
                      late |-> FALSE]
    /\ UNCHANGED <<editorVars, pluginVars, hidden, browser, note>>

\* lines 3539-3544: the input listener of the text area, after a character has
\* been typed: clearTimeout(updateTimeout), then a timer of 500 ms for
\* updatePreview, whose id updateTimeout keeps
CodeInput ==
    /\ codeEditor # Undefined /\ codeEditor.open
    /\ codeEditor.inputs < MaxInputs
    /\ codeEditor' = [codeEditor EXCEPT
                        !.value = @ + 1,
                        !.inputs = @ + 1,
                        !.updateTimeout = codeEditor.inputs + 1,
                        !.timers = {t \in @ : t.id # codeEditor.updateTimeout}
                                        \cup {[id |-> codeEditor.inputs + 1,
                                               left |-> Debounce]},
                        !.sinceInput = 0]
    /\ UNCHANGED <<editorVars, pluginVars, hidden, browser, note>>

\* a tenth of a second passes; a timer that is due runs before more time passes
Tick ==
    /\ codeEditor # Undefined
    /\ codeEditor.timers # {}
    /\ \A t \in codeEditor.timers : t.left > 0
    /\ codeEditor' = [codeEditor EXCEPT
                        !.timers = {[t EXCEPT !.left = @ - 1] : t \in @},
                        !.sinceInput = IF @ < Debounce THEN @ + 1 ELSE @]
    /\ UNCHANGED <<editorVars, pluginVars, hidden, browser, note>>

\* lines 3541-3543 and 3599-3611: a timer that is due runs updatePreview, which
\* executes the code of the text area in the preview container, whether the
\* modal is open or not (late: it has run on a closed modal)
UpdatePreview(id) ==
    /\ codeEditor # Undefined
    /\ [id |-> id, left |-> 0] \in codeEditor.timers
    /\ codeEditor' = [codeEditor EXCEPT
                        !.timers = @ \ {[id |-> id, left |-> 0]},
                        !.preview = codeEditor.value,
                        !.late = @ \/ ~codeEditor.open]
    /\ UNCHANGED <<editorVars, pluginVars, hidden, browser, note>>

\* lines 3576-3580: the Reset to Original button: the text area holds the source
\* again, updatePreview runs at once; the timer is left as it is
ResetClick ==
    /\ codeEditor # Undefined /\ codeEditor.open
    /\ codeEditor' = [codeEditor EXCEPT !.value = 0, !.preview = 0]
    /\ UNCHANGED <<editorVars, pluginVars, hidden, browser, note>>

\* lines 3594-3596 and 3631-3634: the Close button, or the modal closed
\* otherwise: onClose empties the content and leaves the timer alone
CloseCodeEditor ==
    /\ codeEditor # Undefined /\ codeEditor.open
    /\ codeEditor' = [codeEditor EXCEPT !.open = FALSE]
    /\ UNCHANGED <<editorVars, pluginVars, hidden, browser, note>>

\* the code of a block edited in the code editor, while time passes
SpecCode ==
    /\ Constructed([family |-> "type", words |-> <<>>, form |-> 0])
    /\ [][\/ ShowCodeViewer
          \/ CodeInput
          \/ Tick
          \/ \E id \in 1..MaxInputs : UpdatePreview(id)
          \/ ResetClick
          \/ CloseCodeEditor]_vars


(***************************************************************************)
(* Properties                                                              *)
(***************************************************************************)

Opened == phase = "open"

\* the fields of the descriptor onOpen stores
DescriptorFields == {"data", "width", "height", "color"}

\* C1: parseVisualizationData never throws: whatever the source, onOpen ends
\* with a descriptor that has data, width, height and color, and no exception
\* has reached it
C1_NeverThrows ==
    Opened =>
        /\ ~escaped
        /\ DOMAIN parsedData = DescriptorFields
        /\ Len(parsedData.data) > 0
        /\ parsedData.width \in Nat
        /\ parsedData.height \in Nat

\* a text whose literal JSON.parse rejects, as a whole and group by group, has
\* been analysed: the exceptions were thrown and caught
C1_Witness ==
    /\ Opened
    /\ fixture.family = "data"
    /\ fixture.words = <<9, 1>>
    /\ fixture.form = 1
    /\ parsedOrThrown(dataMatches(source).cap).threw
    /\ parsedOrThrown(objectMatches(source, 1)[1]).threw
    /\ ~escaped
    /\ DOMAIN parsedData = DescriptorFields

\* C2: the chart kind is one of the 14 kinds of the type selector, after the
\* analysis of any source and after any changes of the selector
C2_KindInClosedSet ==
    /\ currentVisualizationType \in chartTypes
    /\ Cardinality(chartTypes) = 14

\* the selector has changed the kind the analysis inferred
C2_Witness ==
    /\ Opened
    /\ currentVisualizationType # detectChartType(source)
    /\ currentVisualizationType = "radar"

\* the priority order of the chain: each kind's predicate on the code, first to last
Priority(code) ==
    << <<isDonut(code), "donut-chart">>, <<isPie(code), "pie-chart">>,
       <<isHistogram(code), "histogram">>, <<isHeatmap(code), "heatmap">>,
       <<isTimeline(code), "timeline">>, <<isRadar(code), "radar">>,
       <<isBoxPlot(code), "box-plot">>, <<isBubble(code), "bubble-chart">>,
       <<isStacked(code), "stacked-bar-chart">>,
       <<isHorizontalBar(code), "horizontal-bar">>,
       <<isArea(code), "area-chart">>, <<isLine(code), "line-chart">>,
       <<isBar(code), "bar-chart">>, <<isScatter(code), "scatter-plot">> >>

\* the places of the predicates that match
Matching(code) ==
    LET order == Priority(code)
    IN  {i \in DOMAIN order : order[i][1]}

StackingWords == {kw.stacked, kw.stackCall, kw.d3stack}
BarWords == {kw.scaleBand, kw.bandwidth, kw.bar}

\* C3: the kind is the tag of the first predicate of the priority order that
\* matches; code that matches the donut and the pie predicate is a donut chart,
\* and code with a stacking word and a bar word is a stacked bar chart when no
\* predicate before the stacked one matches
C3_FirstMatchWins ==
    Opened /\ fixture.family = "type" =>
        LET hits == Matching(source)
        IN  /\ hits # {} => currentVisualizationType = Priority(source)[Min(hits)][2]
            /\ {1, 2} \subseteq hits => currentVisualizationType = "donut-chart"
            /\ (/\ \E w \in StackingWords : includes(source, w)
                /\ \E w \in BarWords : includes(source, w)
                /\ \A i \in hits : i >= 9)
                 => currentVisualizationType = "stacked-bar-chart"

\* code that matches the donut and the pie predicate has got the donut tag
C3_Witness ==
    /\ Opened
    /\ fixture.family = "type"
    /\ {1, 2} \subseteq Matching(source)
    /\ currentVisualizationType = "donut-chart"

\* no predicate of the chain matches the code, and it appends no rect, circle or path
NothingMatches(code) ==
    /\ Matching(code) = {}
    /\ \A w \in {kw.appendRectDq, kw.appendRectSq, kw.appendCircleDq,
                 kw.appendCircleSq, kw.appendPathDq, kw.appendPathSq} :
            ~includes(code, w)

\* C4: when no predicate and no shape heuristic matches, as on the empty text,
\* the kind is bar-chart
C4_FallbackBarChart ==
    /\ NothingMatches(<<>>)
    /\ Opened /\ fixture.family = "type" /\ NothingMatches(source)
        => currentVisualizationType = "bar-chart"

\* the empty text has been analysed
C4_Witness ==
    /\ Opened
    /\ fixture.family = "type"
    /\ source = <<>>
    /\ currentVisualizationType = "bar-chart"

\* obj[key] of an object value
Field(obj, key) ==
    LET i == CHOOSE i \in DOMAIN obj.a : obj.a[i][1] = key
    IN  obj.a[i][2]

HasField(obj, key) == obj.t = "object" /\ \E i \in DOMAIN obj.a : obj.a[i][1] = key

\* the record a word of RecWords denotes
Denoted(w) == JObj(<< <<lit.label, JStr(w.label)>>, <<lit.value, JNum(w.m, w.e)>> >>)

\* the statement  const data = [ records ];  has been analysed
DataAssigned == Opened /\ fixture.family = "data" /\ fixture.form = 1

\* C5: for a literal array of {label, value} records assigned to data, whatever
\* the labels and values, the data recovered is that array: the same records in
\* the same order with the same field values
C5_LiteralArrayRecovered ==
    (/\ DataAssigned
     /\ fixture.words # <<>>
     /\ \A i \in DOMAIN fixture.words :
            RecWords[fixture.words[i]].literal /\ RecWords[fixture.words[i]].key = "label")
        => parsedData.data = [i \in DOMAIN fixture.words |-> Denoted(RecWords[fixture.words[i]])]

\* the text holds no bracket
NoBracket(code) == ~includes(code, <<"[">>) /\ ~includes(code, <<"]">>)

\* the values of the value fields of the records
ValuesOf(data) == [i \in DOMAIN data |-> Field(data[i], lit.value).m]

\* C6: on a text without a bracketed literal the extraction recovers nothing and
\* does not throw, and the descriptor carries the sample data: the three Category
\* records when the kind inferred is pie-chart, else the four records A = 30,
\* B = 80, C = 45, D = 60
C6_SampleDataWithoutLiteral ==
    Opened /\ fixture.family = "type" /\ NoBracket(source) =>
        /\ ~escaped
        /\ extractData(source) = Returned(<<>>)
        /\ IF currentVisualizationType = "pie-chart"
           THEN parsedData.data = pieSampleData /\ ValuesOf(parsedData.data) = <<30, 45, 25>>
           ELSE parsedData.data = sampleData /\ ValuesOf(parsedData.data) = <<30, 80, 45, 60>>

\* a pie chart without a literal has got the three Category records
C6_Witness ==
    /\ Opened
    /\ fixture.family = "type"
    /\ NoBracket(source)
    /\ currentVisualizationType = "pie-chart"
    /\ Len(parsedData.data) = 3

\* the labels of the records of the fixture whose value is computed
ComputedLabels == 
    {JStr(RecWords[fixture.words[i]].label) :
        i \in {j \in DOMAIN fixture.words : ~RecWords[fixture.words[j]].literal}}

\* C7: for a literal of one well-formed record and one record with a computed
\* value, the fallback drops the record with the computed value: no record of the
\* result is made from it
C7_ComputedRecordDropped ==
    (/\ DataAssigned
     /\ Len(fixture.words) = 2
     /\ Cardinality(ComputedLabels) = 1
     /\ \A i \in DOMAIN fixture.words : RecWords[fixture.words[i]].key = "label")
        => \A i \in DOMAIN parsedData.data :
                HasField(parsedData.data[i], lit.label)
                    => Field(parsedData.data[i], lit.label) \notin ComputedLabels

ExactStyleText ==
    <<"w", "i", "d", "t", "h", ":", " ", "8", "0", "0", ",", " ", "h", "e", "i", "g", "h", "t", ":", " ", "3", "0", "0", ",", " ", "f", "i", "l", "l", ":", " ", "'", "r", "e", "d", "'">>

\* no word of the style fixture is about the width, the height or the color
NoStylePattern == \A i \in DOMAIN fixture.words : StyleWords[fixture.words[i]].about = "x"

\* C8: on the text  width: 800, height: 300, fill: 'red'  the width is 800, the
\* height 300 and the color red; on a text with none of the three patterns they
\* are the defaults 600, 400 and steelblue
C8_StyleExampleAndDefaults ==
    Opened /\ fixture.family = "style" =>
        /\ fixture.words = <<1, 2, 3>> =>
                /\ source = ExactStyleText
                /\ parsedData.width = 800
                /\ parsedData.height = 300
                /\ parsedData.color = <<"r", "e", "d">>
        /\ NoStylePattern =>
                /\ parsedData.width = 600
                /\ parsedData.height = 400
                /\ parsedData.color = steelblue

\* the text of the example has been analysed
C8_Witness ==
    /\ Opened
    /\ source = ExactStyleText
    /\ parsedData.width = 800

\* the words ws without the one at place i
Without(ws, i) == [j \in 1..(Len(ws) - 1) |-> IF j < i THEN ws[j] ELSE ws[j + 1]]

\* C9: the three parameters are extracted independently: with a word about one of
\* them taken out of the text, the other two keep their values
C9_StyleIndependent ==
    Opened /\ fixture.family = "style" =>
        \A i \in DOMAIN fixture.words :
            LET about == StyleWords[fixture.words[i]].about
                less == StyleText(Without(fixture.words, i))
            IN  /\ about \in {"h", "c"} => extractWidth(less) = parsedData.width
                /\ about \in {"w", "c"} => extractHeight(less) = parsedData.height
                /\ about \in {"w", "h"} => extractColor(less) = parsedData.color

\* the string arguments the words of the style fixture give the color, in order
ColorArguments ==
    LET withArg == SelectSeq(fixture.words, LAMBDA w : StyleWords[w].arg # <<>>)
    IN  [i \in DOMAIN withArg |-> StyleWords[withArg[i]].arg]

\* C10: the color is the string argument that follows fill, stroke or color, in
\* the assignment idiom and in the method-call idiom alike
C10_ColorIsArgument ==
    Opened /\ fixture.family = "style" /\ ColorArguments # <<>> =>
        parsedData.color = ColorArguments[1]

\* the Apply Changes button has written the generated code to the clipboard in
\* the session that has just ended
Applied == phase = "closed" /\ clipboard # <<>>

\* C11: for every kind outside bar-chart, horizontal-bar, pie-chart and
\* donut-chart the generated text, of the preview and of Apply Changes, is the
\* stored template itself, whatever the data, the width, the height and the
\* color of the descriptor
C11_TemplateVerbatim ==
    currentVisualizationType \notin simpleDataTypes =>
        /\ Applied => clipboard = getTemplates[currentVisualizationType]
        /\ Opened =>
            generateVisualizationCode(currentVisualizationType, parsedData)
                = getTemplates[currentVisualizationType]

\* the data the analysis recovers from a text, as onOpen of a new editor on that
\* text would store them
recovered(text) == parseVisualizationData(text, "bar-chart").val.data

\* C12: round trip: for bar-chart, horizontal-bar, pie-chart and donut-chart and
\* a descriptor with records {label, value}, the analysis of the generated code
\* recovers the data of the descriptor
C12_RoundTrip ==
    Applied /\ currentVisualizationType \in simpleDataTypes =>
        recovered(clipboard) = parsedData.data

\* the statement that assigns the descriptor's data, as the data replacement
\* writes it
dataStatement(data) == gen.constData \o JSONstringify(JArr(data)) \o <<";">>

\* C13: for bar-chart, horizontal-bar, pie-chart and donut-chart and non-empty
\* data, the generated code holds the descriptor's data in the place of the
\* template's data statement: it is not the stored template, and it holds the
\* statement that assigns the descriptor's data
C13_DataStatementReplaced ==
    Applied /\ currentVisualizationType \in simpleDataTypes /\ Len(parsedData.data) > 0 =>
        /\ clipboard # getTemplates[currentVisualizationType]
        /\ includes(clipboard, dataStatement(parsedData.data))

\* a hex color
Hex(color) == color # <<>> /\ color[1] = "#"

\* the text holds n references to the default color, and none when n is 0:
\* utils.colors[0], and the fill  .style("fill", "steelblue")
DefaultColorReferences(text, n) ==
    /\ Cardinality(Occurrences(text, gen.colors0)) = n
    /\ n = 0 => ~includes(text, gen.styleFill \o <<" ">> \o gen.steelblueArg)

\* in the code generated from the template the references to the default color
\* are the descriptor's color when it is a hex value, and are left when it is
\* not: the color stands between quotation marks once more for each reference
\* replaced, and where the template has it
ColorPut(code, template, color) ==
    LET n == Cardinality(Occurrences(template, gen.colors0))
        quoted == <<"\"">> \o color \o <<"\"">>
        had == Cardinality(Occurrences(template, quoted))
    IN  IF Hex(color)
        THEN /\ DefaultColorReferences(code, 0)
             /\ Cardinality(Occurrences(code, quoted)) = had + n
        ELSE /\ DefaultColorReferences(code, n)
             /\ Cardinality(Occurrences(code, quoted)) = had

\* C14: the references of the template to the default color are replaced by the
\* descriptor's color if and only if the color is a hex value; with a named
\* color every reference is left as it is, in the final code and in the preview
C14_ColorOnlyWhenHex ==
    /\ Applied => ColorPut(clipboard, getTemplates[currentVisualizationType],
                          parsedData.color)
    /\ Opened => ColorPut(generateVisualizationCode(currentVisualizationType, parsedData),
                         getTemplates[currentVisualizationType], parsedData.color)

\* the code of a bar chart has been generated with a hex color: the color stands
\* where the template refers to utils.colors[0]
C14_Witness ==
    /\ Applied
    /\ currentVisualizationType = "bar-chart"
    /\ parsedData.color = <<"#", "f", "f", "0", "0", "0", "0">>
    /\ includes(getTemplates["bar-chart"], gen.colors0)
    /\ includes(clipboard, <<"\"", "#", "f", "f", "0", "0", "0", "0", "\"">>)
    /\ ~includes(clipboard, gen.colors0)

\* the last place up to i of the text that holds no white space, or 0
RECURSIVE BeforeSpace(_, _)
BeforeSpace(s, i) ==
    IF i = 0 \/ s[i] \notin WhiteSpace THEN i ELSE BeforeSpace(s, i - 1)

\* the token the number at place a of the text is assigned to: width when
\* width\s*=\s* ends right before it, height likewise, else none
AssignedTo(s, a) ==
    LET p == BeforeSpace(s, a - 1)
        q == BeforeSpace(s, p - 1)
    IN  IF p = 0 \/ s[p] # "=" THEN "none"
        ELSE IF q >= Len(lit.width) /\ SubSeq(s, q - Len(lit.width) + 1, q) = lit.width
             THEN "width"
        ELSE IF q >= Len(lit.height) /\ SubSeq(s, q - Len(lit.height) + 1, q) = lit.height
             THEN "height"
        ELSE "none"

\* the numbers (maximal runs of digits) that start at the places lo..hi of a
\* text, from left to right, each with the token it is assigned to
RECURSIVE NumbersIn(_, _, _)
NumbersIn(s, lo, hi) ==
    IF lo > hi THEN <<>>
    ELSE IF lo = hi
         THEN IF s[lo] \in Digits /\ (lo = 1 \/ s[lo - 1] \notin Digits)
              THEN <<[digits |-> SubSeq(s, lo, Skip(s, lo, Digits) - 1),
                      of |-> AssignedTo(s, lo)]>>
              ELSE <<>>
    ELSE NumbersIn(s, lo, (lo + hi) \div 2) \o NumbersIn(s, (lo + hi) \div 2 + 1, hi)

Numbers(s) == NumbersIn(s, 1, Len(s))

\* the numbers of the code are those of the text before the replacement of the
\* dimensions, but for the ones assigned to width and to height, which are the
\* width and the height
DimensionsPut(after, before, width, height) ==
    /\ Len(after) = Len(before)
    /\ \A k \in DOMAIN before :
        /\ after[k].of = before[k].of
        /\ after[k].digits = CASE before[k].of = "width" -> natToString(width)
                               [] before[k].of = "height" -> natToString(height)
                               [] OTHER -> before[k].digits

Effective(descriptor) ==
    [width |-> IF descriptor.width = 0 THEN 600 ELSE descriptor.width,
     height |-> IF descriptor.height = 0 THEN 400 ELSE descriptor.height,
     color |-> IF descriptor.color = <<>> THEN steelblue ELSE descriptor.color]

\* the code is the template with the replacements of the data, the dimensions
\* and the color, and neither the placeholder nor the text of a generator
\* written by hand
TemplateWithReplacements(code, type, data, with) ==
    /\ type \in DOMAIN getTemplates
    /\ code = fromTemplate(getTemplates[type], type, data, JSONstringify(JArr(data)),
                           with.width, with.height, with.color)
    /\ code # notImplemented
    /\ code # customGeneration(type, JSONstringify(JArr(data)), natToString(with.width),
                               natToString(with.height), with.color)

\* C16: every kind of the selector has a stored template, and for every kind the
\* editor holds and every descriptor the final code is the stored template of
\* the kind with at most the three replacements: never the placeholder
\* // Chart type not implemented yet, never the text of a fallback generator
C16_AlwaysFromTemplate ==
    /\ chartTypes \subseteq DOMAIN getTemplates
    /\ Applied => TemplateWithReplacements(clipboard, currentVisualizationType,
                                           parsedData.data, Effective(parsedData))

\* the final code of a stacked bar chart, a kind without a generator written by
\* hand, has been generated: it is the stored template
C16_Witness ==
    /\ Applied
    /\ currentVisualizationType = "stacked-bar-chart"
    /\ clipboard = getTemplates["stacked-bar-chart"]
    /\ clipboard # notImplemented

\* a later session on the block has just analysed its source: an earlier session
\* made edits, this one has made none yet
LaterSession == Opened /\ ~escaped /\ session.earlier # {} /\ session.edits = 0

\* C17: the descriptor of a later session on a block is the one the analysis of
\* the block's source gives, as in the first session: the edits of the earlier
\* sessions, applied or cancelled, are not in it, and the source is the text the
\* block had
C17_FreshDescriptor ==
    LaterSession =>
        /\ parsedData = session.fresh
        /\ source = TextOf(fixture)

\* the editor is open for the third time at least, after a session whose edits
\* were applied and one whose edits were cancelled
C17_Witness ==
    /\ LaterSession
    /\ session.earlier = {"applied", "cancelled"}
    /\ parsedData = session.fresh

\* the code of a block has called a loader, which has returned the promise
Loading == promise # Undefined

\* C18: with Allow Data Loading off the promise of loadData.csv, loadData.json
\* and loadData.text is rejected with  Data loading is disabled in settings  and
\* no call has been made on the vault; with the setting on and no file at the
\* path it is rejected with  File not found: <path>  and the file has been
\* looked up, not read
C18_LoaderRefuses ==
    Loading =>
        /\ ~promise.allowed =>
                /\ promise.state = "rejected"
                /\ promise.reason = <<"Data loading is disabled in settings">>
                /\ promise.calls = <<>>
        /\ promise.allowed /\ promise.file = "absent" =>
                /\ promise.state = "rejected"
                /\ promise.reason = <<"File not found: ", promise.path>>
                /\ promise.calls = <<"getAbstractFileByPath">>

\* loadData.json has been called with the setting off on the path of a file the
\* vault holds
C18_Witness ==
    /\ Loading
    /\ promise.kind = "json"
    /\ ~promise.allowed
    /\ promise.file = "wellformed"
    /\ promise.state = "rejected"
    /\ promise.calls = <<>>

\* the code of the block that has run has failed: it has thrown, or the promise
\* of the loader it called is rejected
Failed ==
    /\ running # Undefined
    /\ running.code.throws \/ (Loading /\ promise.state = "rejected")

\* the text of the error the code failed with
Failure == IF running.code.throws THEN <<"no data">> ELSE promise.reason

\* C19: when the code of a block has failed, synchronously or in a data load it
\* started, with Enable Error Display on the container was emptied and holds the
\* error message first, with the text of the error; with the setting off it
\* holds what the code drew and no error element
C19_FailureDisplayed ==
    Failed =>
        IF running.enableErrorDisplay
        THEN /\ container # <<>>
             /\ container[1] = [cls |-> "d3-error-display",
                                message |-> <<"Error: ">> \o Failure]
        ELSE /\ \A i \in DOMAIN container : container[i] = drawing
             /\ running.code.draws => container # <<>>

\* C20: no step changes the source of the block; Apply Changes closes the
\* editor whether it copies or not; and the clipboard changes only in a step
\* that closes an open editor with an active view, to the code generated from
\* the descriptor
C20_ApplyOneWay ==
    [][/\ source' = source
       /\ ApplyChanges => phase' = "closed"
       /\ clipboard' # clipboard =>
            /\ phase = "open"
            /\ phase' = "closed"
            /\ activeView
            /\ clipboard' = generateFinalCode(currentVisualizationType, parsedData)]_vars

\* the changes have been applied with edits made: the editor is closed, the
\* clipboard holds generated code, and the block has the source it had
C20_Witness ==
    /\ phase = "closed"
    /\ "applied" \in session.earlier
    /\ clipboard # <<>>
    /\ clipboard # source
    /\ source = TextOf(fixture)

\* the record of the inline literal that the second and the fifth statement of
\* Forms bind after the assignment
InlineZ == <<Record(<<"Z">>, 1)>>

\* the data the assignment stage gives for the source: empty when no assignment
\* is found and when the literal found gives no record
FromAssignment == assignedData(dataMatches(source)).val

\* C21 as stated: when an assignment to data, events, nodes, tasks or matrix is
\* found, the inline literal of a .data([...]) call never contributes: the data
\* are those of the assignment, or the sample data
C21_InlineOnlyWithoutAssignment ==
    Opened /\ fixture.family = "data" /\ dataMatches(source).ok =>
        parsedData.data = withSampleData(FromAssignment, currentVisualizationType)

\* C21 amended: the inline literal of a .data([...]) call is consulted if and
\* only if the data are still empty after the assignment stage, which is also
\* the case when an assignment is found and its literal gives no record; when
\* the assignment gives records the inline literal never contributes
C21_InlineWhenStillEmpty ==
    Opened /\ fixture.family = "data" =>
        /\ FromAssignment # <<>> => parsedData.data = FromAssignment
        /\ fixture.form \in {2, 5} =>
                (parsedData.data = InlineZ <=> FromAssignment = <<>>)

\* an assignment to data is found, its literal holds a record but gives none,
\* and the data are those of the inline literal
C21_Witness ==
    /\ Opened
    /\ fixture.family = "data"
    /\ fixture.form = 2
    /\ fixture.words # <<>>
    /\ dataMatches(source).ok
    /\ FromAssignment = <<>>
    /\ parsedData.data = InlineZ

\* the literal of the assignment to events in the eighth statement of Forms
EventsLiteral ==
    <<"[", "{", "\"", "l", "a", "b", "e", "l", "\"", ":", "\"", "Z", "\"", ",", "\"", "v", "a", "l", "u", "e", "\"", ":", "1", "}", "]">>

\* the data of the assignment stage are those the strict decoding gives: the
\* array decoded when it is not empty, and when it is empty the data go on
\* empty to the inline stage; the scan of the groups has no part in them
StrictWins(strict, data, type, fromInline) ==
    IF strict.val.t = "array" /\ Len(strict.val.a) > 0
    THEN data = strict.val.a
    ELSE data = withSampleData(fromInline.val, type)

\* C22: the stages of the data extraction run in order and the first success
\* wins: an assignment to data is taken before one to events, nodes, tasks or
\* matrix, wherever they stand; a captured literal that JSON.parse decodes to an
\* array that is not empty is the result as it is; and the scan of the groups
\* gives the result only when JSON.parse rejects the captured literal
C22_StagesInOrder ==
    Opened /\ fixture.family = "data" /\ dataMatches(source).ok =>
        /\ fixture.form = 8 =>
                /\ dataMatches(source).cap # EventsLiteral
                /\ \A i \in DOMAIN parsedData.data : parsedData.data[i] # InlineZ[1]
        /\ ~parsedOrThrown(dataMatches(source).cap).threw =>
                StrictWins(parsedOrThrown(dataMatches(source).cap), parsedData.data,
                           currentVisualizationType, inlineData(inlineDataMatch(source)))

\* the text assigns to events and then to data a literal that JSON.parse
\* decodes, to a record in which the scan of the groups would find nothing: the
\* data are the record decoded
C22_Witness ==
    /\ Opened
    /\ fixture.family = "data"
    /\ fixture.form = 8
    /\ fixture.words = <<12>>
    /\ ~parsedOrThrown(dataMatches(source).cap).threw
    /\ parsedData.data = parsedOrThrown(dataMatches(source).cap).val.a
    /\ extractSimpleDataArray(dataMatches(source).cap).val = <<>>

\* C23: onOpen of an editor on the stored template of a kind of the type
\* selector, as the template browser inserts it, infers that kind
C23_TemplateKindInferred ==
    [][OnOpen /\ fixture.family = "template"
            => currentVisualizationType' = fixture.words[1]]_vars

\* the text but for its digits
NoDigits(s) == SelectSeq(s, LAMBDA c : c \notin Digits)

\* two codes that differ at most in the numbers assigned to width and to height
SameButDimensions(p, f) ==
    /\ NoDigits(p) = NoDigits(f)
    /\ Len(Numbers(p)) = Len(Numbers(f))
    /\ \A k \in DOMAIN Numbers(p) :
        Numbers(p)[k].of \notin {"width", "height"}
            => Numbers(p)[k].digits = Numbers(f)[k].digits

\* C24: the code of the preview and the final code of an open editor are the
\* same text when the descriptor's width is at most 350 and its height at most
\* 280, and differ at most in the numbers assigned to width and to height when
\* they are larger
C24_PreviewIsFinal ==
    Opened /\ ~escaped /\ fixture.family = "sheet" =>
        LET p == generateVisualizationCode(currentVisualizationType, parsedData)
            f == generateFinalCode(currentVisualizationType, parsedData)
        IN  /\ parsedData.width <= 350 /\ parsedData.height <= 280 => p = f
            /\ SameButDimensions(p, f)

\* C24 for the descriptors whose width and height are not 0
C24_PreviewIsFinalWhenPositive ==
    Opened /\ ~escaped /\ fixture.family = "sheet"
           /\ parsedData.width > 0 /\ parsedData.height > 0 =>
        LET p == generateVisualizationCode(currentVisualizationType, parsedData)
            f == generateFinalCode(currentVisualizationType, parsedData)
        IN  /\ parsedData.width <= 350 /\ parsedData.height <= 280 => p = f
            /\ SameButDimensions(p, f)

\* the templates but for the one of key
TemplatesBut(templates, key) == [k \in DOMAIN templates \ {key} |-> templates[k]]

\* C25: in the template browser the Insert button is enabled only while a
\* template is selected; the note changes only by the fenced text of the
\* template selected being inserted, after which the modal is closed; a request
\* to insert with no template selected, or with one the templates do not hold,
\* leaves the note as it is
C25_InsertOnlySelected ==
    /\ [](browser # Undefined /\ ~browser.disabled
            => browser.selectedTemplate # null)
    /\ [][/\ note' # note =>
                /\ browser'.selectedTemplate \in DOMAIN getTemplates
                /\ note' = Append(note, fenced(getTemplates[browser'.selectedTemplate]))
                /\ ~browser'.open
          /\ browser # Undefined /\ browser.open /\ browser.selectedTemplate = null
                /\ browser'.selectedTemplate = null
                => note' = note
          /\ browser' # Undefined =>
                insertSelectedTemplate(note, browser'.selectedTemplate,
                    TemplatesBut(getTemplates, browser'.selectedTemplate)).note = note]_vars

\* the pie chart has been chosen among the cards that a search left, then the
\* list shown again and the template inserted from it: the note holds the
\* block, the modal is closed
C25_Witness ==
    /\ browser # Undefined
    /\ ~browser.open
    /\ browser.selectedTemplate = "pie-chart"
    /\ browser.searchValue = <<"c", "i", "r", "c">>
    /\ browser.currentView = "templates"
    /\ browser.backBtn
    /\ ~browser.disabled
    /\ note = <<fenced(getTemplates["pie-chart"])>>

\* C27: in the code editor at most one refresh of the preview is pending, a
\* refresh that a timer runs comes five tenths of a second after the last
\* input, and no refresh runs once the modal is closed
C27_NoRefreshAfterClose ==
    /\ [](codeEditor # Undefined =>
            /\ Cardinality(codeEditor.timers) <= 1
            /\ ~codeEditor.late)
    /\ [][codeEditor # Undefined /\ codeEditor'.timers # codeEditor.timers
            /\ codeEditor'.timers \subseteq codeEditor.timers
            => codeEditor.sinceInput = Debounce]_vars

\* C27 without its last part: one refresh pending at most, run five tenths of a
\* second after the last input (while the modal is open or after)
C27_Debounced ==
    /\ [](codeEditor # Undefined => Cardinality(codeEditor.timers) <= 1)
    /\ [][codeEditor # Undefined /\ codeEditor'.timers # codeEditor.timers
            /\ codeEditor'.timers \subseteq codeEditor.timers
            => codeEditor.sinceInput = Debounce]_vars

\* C26: a change of the type selector changes the kind and nothing else of the
\* editor: the data, the width, the height and the color of the descriptor are
\* the ones they were, whatever the kind before and the kind selected
C26_TypeChangeKeepsDescriptor ==
    [][phase = "open" /\ phase' = "open"
            /\ currentVisualizationType' # currentVisualizationType
        => /\ parsedData' = parsedData
           /\ UNCHANGED <<source, clipboard, session, escaped, hidden>>]_vars

\* a text analysed as a pie chart without data of its own, the kind then changed
\* to bar-chart: the descriptor still holds the sample data of the pie chart
C26_Witness ==
    /\ Opened
    /\ ~escaped
    /\ detectChartType(source) = "pie-chart"
    /\ currentVisualizationType = "bar-chart"
    /\ parsedData.data = pieSampleData

\* the text is one whose number the settings tab refuses: parseInt reads none in
\* it, or one that is not greater than 0
Refused(value) == parseIntOf(value).nan \/ parseIntOf(value).n <= 0

\* C29: the default width and the default height of the settings are positive
\* integers whatever is typed into their fields, and a text without a number, or
\* with a number that is not greater than 0, changes no setting and saves none
C29_SettingsStayPositive ==
    /\ [](/\ settings.defaultWidth \in Nat \ {0}
          /\ settings.defaultHeight \in Nat \ {0})
    /\ [][\A setting \in {"defaultWidth", "defaultHeight"}, value \in SettingValues :
            DefaultSizeChange(setting, value) /\ Refused(value)
                => UNCHANGED <<settings, saved>>]_vars

\* 12px has been typed into the width field and 3.7 into the height field: 12
\* and 3 are stored and saved
C29_Witness ==
    /\ settings.defaultWidth = 12
    /\ settings.defaultHeight = 3
    /\ saved = settings

\* C30: the width and the height of the descriptor of an open editor are
\* positive integers, whatever has been typed into the Width and Height fields
C30_DimensionsPositive ==
    Opened /\ ~escaped =>
        /\ parsedData.width \in Nat \ {0}
        /\ parsedData.height \in Nat \ {0}

\* C30 for the descriptors whose width has been typed
C30_TypedWidthPositive ==
    [][\A text \in {<<"8", "0", "0">>, <<>>, <<"-", "5">>} :
            WidthInput(text) => parsedData'.width \in Nat \ {0}]_vars

\* C28: the container of the block is hidden exactly while the editor that the
\* block's edit button has opened is open: hidden from the click on, shown
\* again by the step that closes the editor, whichever it is
C28_HiddenWhileEditing ==
    /\ [](hidden <=> phase \in {"constructed", "open"})
    /\ [][/\ phase = "open" /\ phase' = "closed" => hidden /\ ~hidden'
          /\ phase = "closed" /\ phase' # "closed" => ~hidden /\ hidden']_vars

\* an editor closed by Apply Changes after an earlier one on the block had been
\* cancelled: the container is shown
C28_Witness ==
    /\ phase = "closed"
    /\ ~hidden
    /\ clipboard # <<>>
    /\ "cancelled" \in session.earlier

=============================================================================
